---- MODULE Spec2Model ----
(***************************************************************************)
(* A model of the bloom line filter: the two filter containers (the        *)
(* bloomfilter-crate backed MemoryContainerBloom and the slotted           *)
(* MemoryContainerXXH), the container file format (Container::save and     *)
(* Container::from_file) and the streaming loop of process()/process_line().*)
(*                                                                         *)
(* Bytes are integers 0..255, a line is a sequence of bytes.  64-bit       *)
(* hashes are scaled to HashBits bits; xxh3_64 and SipHash are external    *)
(* functions and are replaced by fixed mixing functions of that width.     *)
(***************************************************************************)
EXTENDS Integers, Sequences, FiniteSets, TLC

\* ------------------------------------------------------------------ bounds

\* Largest number of bytes stdin delivers in one run.
MaxInput == 4

\* Width of a modelled hash word (u64 in the source).
HashBits == 24

\* Largest num_writes up to which the container interface is exercised directly.
MaxWrites == 3

\* The read errors of a run.
MaxErrors == 1

\* The size in bytes and the limit of the default container, scaled down
\* from parse_size("2Gb") and parse_size("200M").
DefaultSize == 8
DefaultLimit == 2

\* BUFFER_CAPACITY of the BufWriter around stdout: 64 * 1024 in process(),
\* scaled down so that the lines of the model fill and exceed it.
BUFFER_CAPACITY == 3

\* -------------------------------------------------------- program constants

\* key_bits: number of bits used for each key in the slot.
KeyBits == 20

\* slot_internal_bits: the occupied flag of a slot.
SlotInternalBits == 1

\* num_tries: maximum number of lookups when adding/retrieving keys.
NumTries == 4

\* Number of zero bytes that align the header to 128 bytes.
HeaderPadding == 83

\* MAGIC (0xB1008811) as write_u32::<BigEndian> lays it out.
MAGIC == <<177, 0, 136, 17>>

\* The newline byte that read_until() splits on.
NL == 10

\* ------------------------------------------------------------- arithmetic

Pow2(n) == 2 ^ n

HashSpace == Pow2(HashBits)

\* u64::MAX at the modelled width.
HashMax == HashSpace - 1

Max(a, b) == IF a >= b THEN a ELSE b

CeilDiv(a, b) == (a + b - 1) \div b

\* Whether bit i of the unsigned number n is set (n & (1 << i) != 0).
BitOf(n, i) == (n \div Pow2(i)) % 2 = 1

\* The number whose set bits are the members of S that lie in from..to, bit
\* from being the least significant.
RECURSIVE BitsValue(_, _, _)
BitsValue(S, from, to) ==
    IF from > to THEN 0
    ELSE (IF from \in S THEN 1 ELSE 0) + 2 * BitsValue(S, from + 1, to)

\* ------------------------------------------------------ hashes (stand-ins)

\* Polynomial fold of a byte sequence into 0..508, started from a seed.
RECURSIVE Mix(_, _)
Mix(acc, bytes) ==
    IF bytes = <<>> THEN acc
    ELSE Mix((acc * 31 + Head(bytes) + 1) % 509, Tail(bytes))

\* xxh3_64(value.as_bytes()): an unkeyed hash of the bytes.
Xxh3_64(bytes) == (Mix(7, bytes) * 1000003) % HashSpace

\* SipHasher13 keyed by (k0, k1) over a String: str's Hash feeds the bytes and a
\* 0xff terminator.
SipHash(key, bytes) ==
    (Mix((key[1] * 17 + key[2]) % 509, bytes \o <<255>>) * 2654435) % HashSpace

\* ----------------------------------------------------------------- BitVec

\* BitVec::from_elem(n, false)
BitVecNew(n) == [len |-> n, bits |-> {}]

\* BitVec::get(i): None when i is out of range.
BitVecGet(bv, i) == i \in bv.bits

\* BitVec::set(i, x)
BitVecSet(bv, i, x) ==
    [bv EXCEPT !.bits = IF x THEN @ \cup {i} ELSE @ \ {i}]

\* BitVec::to_bytes(): bit 8j+i is bit 7-i of byte j (most significant first).
BitVecToBytes(bv) ==
    [j \in 1..CeilDiv(bv.len, 8) |->
        BitsValue({7 - i : i \in {i \in 0..7 : (8 * (j - 1) + i) \in bv.bits}}, 0, 7)]

\* BitVec::from_bytes(bytes)
BitVecFromBytes(bytes) ==
    [len |-> 8 * Len(bytes),
     bits |-> {8 * (j - 1) + i : <<j, i>> \in
                 {p \in (1..Len(bytes)) \X (0..7) : BitOf(bytes[p[1]], 7 - p[2])}}]

\* ------------------------------------------------------------- containers

\* ConstructionType, #[repr(u8)]: the discriminant stored in the file header.
ConstructionTypes == <<"BloomLinesAndSize", "BloomLinesAndErrorRate", "XXHLimitAndSize">>

\* `construction_type as u8`
TypeToU8(t) == (CHOOSE i \in 1..Len(ConstructionTypes) : ConstructionTypes[i] = t) - 1

\* The Bloom<String> of a container that is not a MemoryContainerBloom.
NoFilter ==
    [bit_vec |-> BitVecNew(0), bitmap_bits |-> 0, k_num |-> 0,
     sips |-> <<<<0, 0>>, <<0, 0>>>>]

\* ConstructionDetails { construction_type, limit, error_rate, size }
ConstructionDetails(type, limit, error_rate, size) ==
    [construction_type |-> type, limit |-> limit, error_rate |-> error_rate,
     size |-> size]

\* ContainerDetails { path, data_source, construction_details }
ContainerDetails(path, data_source, cd) ==
    [path |-> path, data_source |-> data_source, construction_details |-> cd]

IsBloomType(t) == t \in {"BloomLinesAndSize", "BloomLinesAndErrorRate"}

IsBloom(c) == IsBloomType(c.container_details.construction_details.construction_type)

\* The result of a container call: the container after it, the value returned,
\* and whether the call panicked (the process then aborts).
Result(c, ret, panic) == [c |-> c, ret |-> ret, panic |-> panic]

\* ----------------------------------------------------- MemoryContainerXXH

\* remap(): linear scaling, computed in f64 and truncated by `as u64`.
Remap(value, in_min, in_max, out_min, out_max) ==
    out_min + ((value - in_min) * (out_max - out_min)) \div (in_max - in_min)

\* calc_slot_index(); with num_slots = 0 the subtraction underflows and the
\* remainder divides by zero, see XxhPanics.
CalcSlotIndex(c, hash) == Remap(hash, 0, HashMax, 0, c.num_slots - 1) % c.num_slots

\* get_hash_key_value(): the low key_bits bits of the hash.
GetHashKeyValue(c, hash) == hash % Pow2(c.key_bits)

\* get_bit_vec_slice(): both indices inclusive.
GetBitVecSlice(c, slot_bit_from, slot_bit_to) ==
    BitsValue(c.bit_vec.bits, slot_bit_from, slot_bit_to)

\* set_bit_vec_slice(): both indices inclusive.
SetBitVecSlice(c, slot_bit_from, slot_bit_to, key) ==
    [c EXCEPT !.bit_vec.bits =
        (@ \ (slot_bit_from..slot_bit_to))
        \cup {slot_bit_from + i : i \in {i \in 0..(slot_bit_to - slot_bit_from) : BitOf(key, i)}}]

\* write_key(): marks the slot occupied, writes the key, counts the write.
WriteKey(c, slot_idx0, key) ==
    LET slot_idx == slot_idx0 % c.num_slots
        slot_occupied_bit == slot_idx * c.slot_bits
        occupied == [c EXCEPT !.bit_vec = BitVecSet(@, slot_occupied_bit, TRUE)]
        slot_key_bit_from == slot_idx * c.slot_bits + 1
        slot_key_bit_to == slot_key_bit_from + c.key_bits - 1
        written == SetBitVecSlice(occupied, slot_key_bit_from, slot_key_bit_to, key)
    IN  [written EXCEPT !.num_writes = @ + 1]

\* read_key()
ReadKey(c, slot_idx0) ==
    LET slot_idx == slot_idx0 % c.num_slots
        slot_key_bit_from == slot_idx * c.slot_bits + 1
        slot_key_bit_to == slot_key_bit_from + c.key_bits - 1
    IN  GetBitVecSlice(c, slot_key_bit_from, slot_key_bit_to)

\* get_slot_in_use(): the first bit of the slot.
GetSlotInUse(c, slot_idx0) ==
    BitVecGet(c.bit_vec, (slot_idx0 % c.num_slots) * c.slot_bits)

\* bit_vec.get(i).unwrap() and bit_vec.set(i, _) panic on an index past the end:
\* whether the occupied bit, and the key bits, of a slot lie in the bit vector.
SlotFlagInRange(c, slot_idx0) ==
    (slot_idx0 % c.num_slots) * c.slot_bits < c.bit_vec.len

SlotKeyInRange(c, slot_idx0) ==
    (slot_idx0 % c.num_slots) * c.slot_bits + c.key_bits < c.bit_vec.len

\* insert_key(): the loop from try i on.
RECURSIVE InsertKeyFrom(_, _, _, _, _)
InsertKeyFrom(c, slot_idx, hash, num_tries, i) ==
    LET hash_key_value == GetHashKeyValue(c, hash) IN
    IF i >= num_tries THEN Result(c, FALSE, FALSE)
    ELSE IF ~SlotFlagInRange(c, slot_idx + i) \/ ~SlotKeyInRange(c, slot_idx + i)
         THEN Result(c, FALSE, TRUE)
    ELSE IF GetSlotInUse(c, slot_idx + i)
         THEN IF ReadKey(c, slot_idx + i) = hash_key_value
              THEN Result(c, TRUE, FALSE)
              ELSE InsertKeyFrom(c, slot_idx, hash, num_tries, i + 1)
    ELSE Result(WriteKey(c, slot_idx + i, hash_key_value), FALSE, FALSE)

\* An insert_key that, when every tried slot holds another key, writes the
\* key over the first slot tried.
InsertKeyOverwriting(c, slot_idx, hash, num_tries) ==
    IF \A i \in 0..(num_tries - 1) :
           /\ GetSlotInUse(c, slot_idx + i)
           /\ ReadKey(c, slot_idx + i) # GetHashKeyValue(c, hash)
    THEN Result(WriteKey(c, slot_idx, GetHashKeyValue(c, hash)), FALSE, FALSE)
    ELSE InsertKeyFrom(c, slot_idx, hash, num_tries, 0)

\* An insert_key that writes the key into the first slot tried whenever that
\* slot does not hold it, whether the slot is in use or not.
InsertKeyEvicting(c, slot_idx, hash, num_tries) ==
    IF GetSlotInUse(c, slot_idx) /\ ReadKey(c, slot_idx) = GetHashKeyValue(c, hash)
    THEN Result(c, TRUE, FALSE)
    ELSE Result(WriteKey(c, slot_idx, GetHashKeyValue(c, hash)), FALSE, FALSE)

\* insert_key(): true if the key was found and thus is not inserted.
InsertKey(c, slot_idx, hash, num_tries) == InsertKeyFrom(c, slot_idx, hash, num_tries, 0)

\* find_key(): the loop from try i on.
RECURSIVE FindKeyFrom(_, _, _, _, _)
FindKeyFrom(c, slot_idx, hash, num_tries, i) ==
    LET hash_key_value == GetHashKeyValue(c, hash) IN
    IF i >= num_tries THEN Result(c, TRUE, FALSE)
    ELSE IF ~SlotFlagInRange(c, slot_idx + i) THEN Result(c, FALSE, TRUE)
    ELSE IF ~GetSlotInUse(c, slot_idx + i) THEN Result(c, FALSE, FALSE)
    ELSE IF ~SlotKeyInRange(c, slot_idx + i) THEN Result(c, FALSE, TRUE)
    ELSE IF ReadKey(c, slot_idx + i) = hash_key_value THEN Result(c, TRUE, FALSE)
    ELSE FindKeyFrom(c, slot_idx, hash, num_tries, i + 1)

\* A find_key that tries the first slot only.
FindKeyFirstSlotOnly(c, slot_idx, hash, num_tries) == FindKeyFrom(c, slot_idx, hash, 1, 0)

\* A find_key that answers true on a matching key only: false when all tried
\* slots are occupied by other keys.
FindKeyMatchOnly(c, slot_idx, hash, num_tries) ==
    Result(c,
           \E i \in 0..(num_tries - 1) :
               /\ \A j \in 0..i : GetSlotInUse(c, slot_idx + j)
               /\ ReadKey(c, slot_idx + i) = GetHashKeyValue(c, hash),
           FALSE)

\* find_key(): true on a matching key, and when all tried slots are occupied.
FindKey(c, slot_idx, hash, num_tries) == FindKeyFrom(c, slot_idx, hash, num_tries, 0)

\* calc_slot_index() panics when there is no slot: `num_slots - 1` underflows
\* (debug build) and `% num_slots` divides by zero (any build).
XxhPanics(c) == c.num_slots = 0

\* MemoryContainerXXH::set
XxhSet(c, value) ==
    IF XxhPanics(c) THEN Result(c, FALSE, TRUE)
    ELSE LET hash == Xxh3_64(value)
             slot_idx == CalcSlotIndex(c, hash)
             r == InsertKey(c, slot_idx, hash, c.num_tries)
         IN  Result([r.c EXCEPT !.num_writes = @ + 1], FALSE, r.panic)

\* MemoryContainerXXH::check
XxhCheck(c, value) ==
    IF XxhPanics(c) THEN Result(c, FALSE, TRUE)
    ELSE LET hash == Xxh3_64(value)
             slot_idx == CalcSlotIndex(c, hash)
         IN  FindKey(c, slot_idx, hash, c.num_tries)

\* MemoryContainerXXH::check_and_set
XxhCheckAndSet(c, value) ==
    IF XxhPanics(c) THEN Result(c, FALSE, TRUE)
    ELSE LET hash == Xxh3_64(value)
             slot_idx == CalcSlotIndex(c, hash)
         IN  InsertKey(c, slot_idx, hash, c.num_tries)

\* MemoryContainerXXH::new_limit_and_size
XxhNewLimitAndSize(container_details) ==
    LET cd == container_details.construction_details IN
    [container_details |-> container_details,
     num_writes |-> 0,
     max_writes |-> cd.limit,
     bit_vec |-> BitVecNew(cd.size * 8),
     key_bits |-> KeyBits,
     slot_bits |-> SlotInternalBits + KeyBits,
     num_slots |-> (cd.size * 8) \div (SlotInternalBits + KeyBits),
     num_tries |-> NumTries,
     filter |-> NoFilter]

\* --------------------------------------------- bloomfilter::Bloom<String>

\* f64 values are modelled in thousandths (500 is 0.5, 0 is 0.0).
\* -ln(p) in millionths, for the error rates the model uses.
NegLnMicro(fp_p) ==
    CASE fp_p = 500 -> 693147
      [] fp_p = 10 -> 4605170
      [] OTHER -> 6907755

\* Bloom::optimal_k_num(): max(ceil(m / n * ln 2), 1).
OptimalKNum(bitmap_bits, items_count) ==
    Max(CeilDiv(bitmap_bits * 693147, items_count * 1000000), 1)

\* Bloom::compute_bitmap_size(): ceil(n * ln(p) / (-8 * ln(2)^2)) bytes.
ComputeBitmapSize(items_count, fp_p) ==
    CeilDiv(items_count * NegLnMicro(fp_p), 3843624)

\* Bloom::new(bitmap_size, items_count) with the keys sip_new() drew.
BloomNew(bitmap_size, items_count, sips) ==
    [bit_vec |-> BitVecNew(bitmap_size * 8),
     bitmap_bits |-> bitmap_size * 8,
     k_num |-> OptimalKNum(bitmap_size * 8, items_count),
     sips |-> sips]

\* Bloom::new asserts bitmap_size > 0 && items_count > 0.
BloomNewPanics(bitmap_size, items_count) == bitmap_size <= 0 \/ items_count <= 0

\* Bloom::new_for_fp_rate(items_count, fp_p)
BloomNewForFpRate(items_count, fp_p, sips) ==
    BloomNew(ComputeBitmapSize(items_count, fp_p), items_count, sips)

\* Bloom::from_existing(bitmap, bitmap_bits, k_num, sip_keys)
BloomFromExisting(bitmap, bitmap_bits, k_num, sip_keys) ==
    [bit_vec |-> BitVecFromBytes(bitmap),
     bitmap_bits |-> bitmap_bits,
     k_num |-> k_num,
     sips |-> sip_keys]

\* Bloom::bloom_hash(): the two keyed hashes, then h0 + k_i * h1 (wrapping)
\* reduced by the largest prime below the word size.
BloomHash(f, item, k_i) ==
    LET h0 == SipHash(f.sips[1], item)
        h1 == SipHash(f.sips[2], item)
    IN  IF k_i = 0 THEN h0
        ELSE IF k_i = 1 THEN h1
        ELSE ((h0 + k_i * h1) % HashSpace) % (HashSpace - 59)

\* The bit the k_i-th hash of item addresses.
BloomBitOffset(f, item, k_i) == BloomHash(f, item, k_i) % f.bitmap_bits

\* `% self.bitmap_bits` divides by zero, and bit_vec.get(i).unwrap() or
\* bit_vec.set(i, true) fail, for the k_i-th hash.
BloomOffsetPanics(f, item, k_i) ==
    \/ f.bitmap_bits = 0
    \/ BloomBitOffset(f, item, k_i) >= f.bit_vec.len

\* Bloom::set(): sets the k_num bits.
BloomFilterSet(f, item) ==
    [f |-> [f EXCEPT !.bit_vec.bits =
                @ \cup {BloomBitOffset(f, item, k_i) : k_i \in 0..(f.k_num - 1)}],
     panic |-> FALSE]

\* Bloom::check(): false at the first clear bit.
RECURSIVE BloomFilterCheckFrom(_, _, _)
BloomFilterCheckFrom(f, item, k_i) ==
    IF k_i >= f.k_num THEN [ret |-> TRUE, panic |-> FALSE]
    ELSE IF BloomOffsetPanics(f, item, k_i) THEN [ret |-> FALSE, panic |-> TRUE]
    ELSE IF ~BitVecGet(f.bit_vec, BloomBitOffset(f, item, k_i))
         THEN [ret |-> FALSE, panic |-> FALSE]
    ELSE BloomFilterCheckFrom(f, item, k_i + 1)

BloomFilterCheck(f, item) == BloomFilterCheckFrom(f, item, 0)

\* Whether some hash of item panics in a call that visits all k_num of them.
BloomFilterPanics(f, item) ==
    \E k_i \in 0..(f.k_num - 1) : BloomOffsetPanics(f, item, k_i)

\* A check_and_set that stops at the first clear bit, as check() does: it sets
\* that bit and leaves the later ones.
BloomFilterCheckAndSetFirstClear(f, item) ==
    LET clear == {k_i \in 0..(f.k_num - 1) :
                     BloomBitOffset(f, item, k_i) \notin f.bit_vec.bits}
        first == CHOOSE k_i \in clear : \A other \in clear : k_i <= other
    IN  IF clear = {} THEN [f |-> f, ret |-> TRUE]
        ELSE [f |-> [f EXCEPT !.bit_vec.bits = @ \cup {BloomBitOffset(f, item, first)}],
              ret |-> FALSE]

\* Bloom::check_and_set(): sets every clear bit, true if none was clear.
BloomFilterCheckAndSet(f, item) ==
    LET offsets == {BloomBitOffset(f, item, k_i) : k_i \in 0..(f.k_num - 1)} IN
    [f |-> [f EXCEPT !.bit_vec.bits = @ \cup offsets],
     ret |-> offsets \subseteq f.bit_vec.bits]

\* --------------------------------------------------- MemoryContainerBloom

\* MemoryContainerBloom::set
BloomSet(c, value) ==
    IF BloomFilterPanics(c.filter, value) THEN Result(c, FALSE, TRUE)
    ELSE Result([c EXCEPT !.filter = BloomFilterSet(c.filter, value).f,
                          !.num_writes = @ + 1], FALSE, FALSE)

\* MemoryContainerBloom::check
BloomCheck(c, value) ==
    LET r == BloomFilterCheck(c.filter, value) IN Result(c, r.ret, r.panic)

\* A check_and_set that counts a write on every call.
BloomCheckAndSetCounting(c, value) ==
    IF BloomFilterPanics(c.filter, value) THEN Result(c, FALSE, TRUE)
    ELSE LET r == BloomFilterCheckAndSet(c.filter, value)
         IN  Result([c EXCEPT !.filter = r.f, !.num_writes = @ + 1], r.ret, FALSE)

\* MemoryContainerBloom::check_and_set
BloomCheckAndSet(c, value) ==
    IF BloomFilterPanics(c.filter, value) THEN Result(c, FALSE, TRUE)
    ELSE LET r == BloomFilterCheckAndSet(c.filter, value)
             had_value == r.ret
         IN  Result([c EXCEPT !.filter = r.f,
                              !.num_writes = IF ~had_value THEN @ + 1 ELSE @],
                    had_value, FALSE)

\* The fields of a container that is not a MemoryContainerXXH.
BloomContainer(container_details, filter) ==
    [container_details |-> container_details,
     num_writes |-> 0,
     max_writes |-> container_details.construction_details.limit,
     bit_vec |-> BitVecNew(0),
     key_bits |-> 0,
     slot_bits |-> 0,
     num_slots |-> 0,
     num_tries |-> 0,
     filter |-> filter]

\* MemoryContainerBloom::new_limit_and_error_rate
BloomNewLimitAndErrorRate(container_details, sips) ==
    LET cd == container_details.construction_details IN
    BloomContainer(container_details, BloomNewForFpRate(cd.limit, cd.error_rate, sips))

\* MemoryContainerBloom::new_limit_and_size
BloomNewLimitAndSize(container_details, sips) ==
    LET cd == container_details.construction_details IN
    BloomContainer(container_details, BloomNew(cd.size, cd.limit, sips))

\* ------------------------------------------------------- trait Container

\* Container::set
ContainerSet(c, value) == IF IsBloom(c) THEN BloomSet(c, value) ELSE XxhSet(c, value)

\* Container::check
ContainerCheck(c, value) == IF IsBloom(c) THEN BloomCheck(c, value) ELSE XxhCheck(c, value)

\* Container::check_and_set
ContainerCheckAndSet(c, value) ==
    IF IsBloom(c) THEN BloomCheckAndSet(c, value) ELSE XxhCheckAndSet(c, value)

\* An is_full that waits for one write more than the maximum.
IsFullAbove(c) == c.num_writes > c.max_writes

\* Container::is_full
IsFull(c) == c.num_writes >= c.max_writes

\* <dyn Container>::from_details; sips are the keys a Bloom filter draws.
FromDetails(container_details, sips) ==
    LET t == container_details.construction_details.construction_type IN
    IF t = "BloomLinesAndErrorRate" THEN BloomNewLimitAndErrorRate(container_details, sips)
    ELSE IF t = "BloomLinesAndSize" THEN BloomNewLimitAndSize(container_details, sips)
    ELSE XxhNewLimitAndSize(container_details)

\* The assertions of Bloom::new and Bloom::compute_bitmap_size that abort
\* from_details.
FromDetailsPanics(container_details) ==
    LET cd == container_details.construction_details IN
    CASE cd.construction_type = "BloomLinesAndErrorRate" ->
            cd.limit <= 0 \/ cd.error_rate <= 0 \/ cd.error_rate >= 1000
      [] cd.construction_type = "BloomLinesAndSize" -> BloomNewPanics(cd.size, cd.limit)
      [] OTHER -> FALSE

\* ------------------------------------------------ container file format

\* The n low bytes of v, least significant first.
RECURSIVE LEBytes(_, _)
LEBytes(v, n) == IF n = 0 THEN <<>> ELSE <<v % 256>> \o LEBytes(v \div 256, n - 1)

\* A write_u64 that puts the most significant byte first.
RECURSIVE BEBytes(_, _)
BEBytes(v, n) == IF n = 0 THEN <<>> ELSE BEBytes(v \div 256, n - 1) \o <<v % 256>>

WriteU64BigEndian(v) == BEBytes(v, 8)

\* write_u64::<LittleEndian>
WriteU64(v) == LEBytes(v, 8)

\* read_u64::<LittleEndian> of 8 bytes.
RECURSIVE ReadU64(_)
ReadU64(bytes) == IF bytes = <<>> THEN 0 ELSE Head(bytes) + 256 * ReadU64(Tail(bytes))

\* write_f64::<LittleEndian>: the IEEE-754 bytes of the modelled error rates
\* (0.0, 0.5, 0.01, 0.001).
WriteF64(fp_p) ==
    CASE fp_p = 0 -> <<0, 0, 0, 0, 0, 0, 0, 0>>
      [] fp_p = 500 -> <<0, 0, 0, 0, 0, 0, 224, 63>>
      [] fp_p = 10 -> <<123, 20, 174, 71, 225, 122, 132, 63>>
      [] OTHER -> <<252, 169, 241, 210, 77, 98, 80, 63>>

\* read_f64::<LittleEndian>
ReadF64(bytes) ==
    IF \E fp_p \in {0, 500, 10, 1} : WriteF64(fp_p) = bytes
    THEN CHOOSE fp_p \in {0, 500, 10, 1} : WriteF64(fp_p) = bytes
    ELSE 1

Zeros(n) == [i \in 1..n |-> 0]

\* save_content of MemoryContainerBloom: the four sip key words, then the bits.
BloomSaveContent(c) ==
    LET sip_keys == c.filter.sips IN
    WriteU64(sip_keys[1][1]) \o WriteU64(sip_keys[1][2])
    \o WriteU64(sip_keys[2][1]) \o WriteU64(sip_keys[2][2])
    \o BitVecToBytes(c.filter.bit_vec)

\* save_content of MemoryContainerXXH: the bits.
XxhSaveContent(c) == BitVecToBytes(c.bit_vec)

\* Container::save: the bytes File::create(path) ends up holding.
Save(c) ==
    LET cd == c.container_details.construction_details IN
    MAGIC
    \o <<TypeToU8(cd.construction_type)>>
    \o WriteU64(cd.size)
    \o WriteU64(cd.limit)
    \o WriteF64(cd.error_rate)
    \o WriteU64(c.num_writes)
    \o WriteU64(c.max_writes)
    \o Zeros(HeaderPadding)
    \o (IF IsBloom(c) THEN BloomSaveContent(c) ELSE XxhSaveContent(c))

\* Bytes from..to of a file (1-based).
Bytes(file, from, to) == SubSeq(file, from, to)

\* Length of the fixed header: 4 + 1 + 5 * 8 + 83.
HeaderLen == 4 + 1 + 5 * 8 + HeaderPadding

\* load_content of MemoryContainerBloom: bitmap_bits is rebuilt from the header's
\* size and k_num from the header's limit.
BloomLoadContent(c, payload) ==
    LET cd == c.container_details.construction_details
        sip_keys == <<<<ReadU64(Bytes(payload, 1, 8)), ReadU64(Bytes(payload, 9, 16))>>,
                      <<ReadU64(Bytes(payload, 17, 24)), ReadU64(Bytes(payload, 25, 32))>>>>
        bytes == Bytes(payload, 33, Len(payload))
    IN  [c EXCEPT !.filter = BloomFromExisting(bytes, cd.size * 8, cd.limit, sip_keys)]

\* load_content of MemoryContainerXXH
XxhLoadContent(c, payload) == [c EXCEPT !.bit_vec = BitVecFromBytes(payload)]

\* Why <dyn Container>::from_file aborts on these bytes ("none" if it does not):
\* a short read (unwrap of UnexpectedEof), a wrong magic (exit(1)), an unknown
\* construction type (unwrap of TryFrom), an assertion of from_details.
FromFileError(file) ==
    IF Len(file) < 4 THEN "eof"
    ELSE IF Bytes(file, 1, 4) # MAGIC THEN "magic"
    ELSE IF Len(file) < 5 THEN "eof"
    ELSE IF file[5] >= Len(ConstructionTypes) THEN "kind"
    ELSE IF Len(file) < HeaderLen THEN "eof"
    ELSE LET type == ConstructionTypes[file[5] + 1]
             cd == ConstructionDetails(type, ReadU64(Bytes(file, 14, 21)),
                                       ReadF64(Bytes(file, 22, 29)),
                                       ReadU64(Bytes(file, 6, 13)))
         IN  IF FromDetailsPanics(ContainerDetails("", "File", cd)) THEN "construct"
             ELSE IF IsBloomType(type) /\ Len(file) < HeaderLen + 32 THEN "eof"
             ELSE "none"

\* A from_file that leaves the counts of writes as from_details set them.
FromFileUncounted(path, file, sips) ==
    LET construction_details ==
            ConstructionDetails(ConstructionTypes[file[5] + 1],
                                ReadU64(Bytes(file, 14, 21)),
                                ReadF64(Bytes(file, 22, 29)),
                                ReadU64(Bytes(file, 6, 13)))
        container == FromDetails(ContainerDetails(path, "File", construction_details), sips)
        payload == Bytes(file, HeaderLen + 1, Len(file))
    IN  IF IsBloom(container) THEN BloomLoadContent(container, payload)
        ELSE XxhLoadContent(container, payload)

\* <dyn Container>::from_file on a file it accepts; sips are the keys
\* from_details draws before load_content replaces the filter.
FromFile(path, file, sips) ==
    LET construction_type == ConstructionTypes[file[5] + 1]
        size == ReadU64(Bytes(file, 6, 13))
        limit == ReadU64(Bytes(file, 14, 21))
        error_rate == ReadF64(Bytes(file, 22, 29))
        num_writes == ReadU64(Bytes(file, 30, 37))
        num_max_writes == ReadU64(Bytes(file, 38, 45))
        construction_details == ConstructionDetails(construction_type, limit, error_rate, size)
        container == FromDetails(ContainerDetails(path, "File", construction_details), sips)
        counted == [container EXCEPT !.num_writes = num_writes,
                                     !.max_writes = num_max_writes]
        payload == Bytes(file, HeaderLen + 1, Len(file))
    IN  IF IsBloom(counted) THEN BloomLoadContent(counted, payload)
        ELSE XxhLoadContent(counted, payload)

\* ------------------------------------------------------------------ state

VARIABLES
    pc,                 \* where main() is: "stream", "save", "exit", "abort"; "api" when
                        \* the container interface is driven directly
    containers,         \* params.containers
    write_mode,         \* params.write_mode
    inverse,            \* params.inverse
    silent,             \* params.silent
    curr_container_idx, \* curr_container_idx of process()
    input,              \* the bytes read from stdin so far
    stdin_eof,          \* stdin ended without a final newline: the next read is EOF
    stdout_lock,        \* the bytes held by the BufWriter around stdout
    stdout,             \* the bytes that reached standard output
    files,              \* path -> bytes of the container file, <<>> for no file
    log,                \* one record per line read: what process() did with it
    last,               \* the last direct container call: op, arg, ret, prev
    inserted,           \* the values passed to set / check_and_set so far
    saved,              \* the container as it was when it was last saved
    loaded,             \* whether the container was built by from_file
    stderr,             \* the reports written to standard error, in order
    run,                \* which run of the program over the same containers this
                        \* is, and the standard input of the run before it
    args,               \* the command line: the number of --file paths (path i is
                        \* files[i]) and the construction details given
    stdin_bytes         \* the bytes standard input is made of

vars == <<pc, containers, write_mode, inverse, silent, curr_container_idx, input,
          stdin_eof, stdout_lock, stdout, files, log, last, inserted, saved, loaded,
          stderr, run, args, stdin_bytes>>

\* The first run of the program: no run came before it.
FirstRun == [pass |-> 1, previous |-> <<>>]

\* A command line with n --file paths and the construction details cds.
Args(n, cds) == [file_paths |-> n, constructions_details |-> cds]

\* No command line: the container interface is driven directly.
NoArgs == Args(0, <<>>)

\* ---------------------------------------------------------------- process

\* The bytes stdin can deliver.
InputBytes == {NL, 97, 255}

\* The bytes of a text with CRLF line ends: 0A, 0D, 'a'.
CrlfBytes == {NL, 13, 97}

\* The non-empty byte sequences of at most n bytes.
ByteSeqs(n) == UNION {[1..k -> stdin_bytes] : k \in 1..n}

\* reader.read_until(b'\n', &mut buf) on a stream that still holds `stream`:
\* the bytes up to and including the first newline, or all of them.
ReadUntil(stream) ==
    IF \E i \in 1..Len(stream) : stream[i] = NL
    THEN SubSeq(stream, 1, CHOOSE i \in 1..Len(stream) :
                              stream[i] = NL /\ \A j \in 1..(i - 1) : stream[j] # NL)
    ELSE stream

\* A strip that takes a carriage return before the newline away as well.
StripLineEnding(buf) ==
    LET stripped == IF buf # <<>> /\ buf[Len(buf)] = NL
                    THEN SubSeq(buf, 1, Len(buf) - 1) ELSE buf
    IN  IF stripped # <<>> /\ stripped[Len(stripped)] = 13
        THEN SubSeq(stripped, 1, Len(stripped) - 1) ELSE stripped

\* `if buf.last() == Some(&b'\n') { buf.pop(); }`
StripNewline(buf) ==
    IF buf # <<>> /\ buf[Len(buf)] = NL THEN SubSeq(buf, 1, Len(buf) - 1) ELSE buf

\* String::from_utf8(buf).is_ok(), for ASCII, two-byte sequences and the bytes
\* 0xF5..0xFF that no encoding contains.
RECURSIVE IsUtf8(_)
IsUtf8(bytes) ==
    IF bytes = <<>> THEN TRUE
    ELSE IF Head(bytes) < 128 THEN IsUtf8(Tail(bytes))
    ELSE IF Head(bytes) \in 194..223 /\ Len(bytes) >= 2 /\ bytes[2] \in 128..191
         THEN IsUtf8(Tail(Tail(bytes)))
    ELSE FALSE

\* BufWriter::write on w = [buf, out]: the buffer is flushed first when the
\* data does not fit; data shorter than the capacity is buffered, longer data
\* goes to stdout in one write call, which takes the first `accepted` bytes
\* of it. The number write() returns is dropped by the callers.
BufWrite(w, data, accepted) ==
    LET flushed == IF Len(w.buf) + Len(data) > BUFFER_CAPACITY
                   THEN [buf |-> <<>>, out |-> w.out \o w.buf] ELSE w
    IN  IF Len(data) >= BUFFER_CAPACITY
        THEN [flushed EXCEPT !.out = @ \o SubSeq(data, 1, accepted)]
        ELSE [flushed EXCEPT !.buf = @ \o data]

\* BufWriter::write_all: every byte is written.
BufWriteAll(w, data) == BufWrite(w, data, Len(data))

\* The numbers of bytes one write() of data can take: all of it when it is
\* buffered, at least one byte when it is passed to stdout.
Accepted(data) ==
    IF Len(data) >= BUFFER_CAPACITY THEN 1..Len(data) ELSE {Len(data)}

\* A step 1 that starts over from the first container whenever the current
\* one has room.
AdvanceCursorRestart(cs, idx) ==
    IF idx < Len(cs) /\ IsFull(cs[idx + 1]) THEN idx + 1 ELSE 0

\* A step 1 that moves on from the current container whether it is full or
\* not.
AdvanceCursorAlways(cs, idx) ==
    IF idx < Len(cs) THEN idx + 1 ELSE idx

\* Step 1 of process_line: skips the full containers.
RECURSIVE AdvanceCursor(_, _)
AdvanceCursor(cs, idx) ==
    IF idx < Len(cs) /\ IsFull(cs[idx + 1]) THEN AdvanceCursor(cs, idx + 1) ELSE idx

\* What the loop of step 2 leaves: the containers and the two flags.
Scanned(cs, value_found, value_written, panic) ==
    [containers |-> cs, value_found |-> value_found, value_written |-> value_written,
     panic |-> panic]

\* Step 2 of process_line: the loop over the containers from index idx on.
\* ScanWritable is the branch for the current writable container, given r,
\* the outcome of its check_and_set; ScanOther is the branch for any other
\* container, given r, the outcome of its check.
RECURSIVE Scan(_, _, _, _, _)
RECURSIVE ScanWritable(_, _, _, _, _, _)
RECURSIVE ScanOther(_, _, _, _, _, _)
ScanWritable(cs, idx, cur, could_write, line, r) ==
    IF r.panic THEN Scanned(cs, FALSE, FALSE, TRUE)
    ELSE IF r.ret THEN Scanned([cs EXCEPT ![idx + 1] = r.c], TRUE, TRUE, FALSE)
    ELSE Scan([cs EXCEPT ![idx + 1] = r.c], idx + 1, cur, could_write, line)

\* A branch for the other containers that reports a hit without marking the
\* value as written.
ScanOtherUnwritten(cs, idx, cur, could_write, line, r) ==
    IF r.panic THEN Scanned(cs, FALSE, FALSE, TRUE)
    ELSE IF r.ret THEN Scanned(cs, TRUE, FALSE, FALSE)
    ELSE Scan(cs, idx + 1, cur, could_write, line)

ScanOther(cs, idx, cur, could_write, line, r) ==
    IF r.panic THEN Scanned(cs, FALSE, FALSE, TRUE)
    ELSE IF r.ret THEN Scanned(cs, TRUE, TRUE, FALSE)
    ELSE Scan(cs, idx + 1, cur, could_write, line)

\* A step 2 that takes every container for the writable one while writing is
\* possible.
ScanEveryWritable(cs, idx, cur, could_write, line) ==
    IF idx >= Len(cs) THEN Scanned(cs, FALSE, FALSE, FALSE)
    ELSE IF could_write
    THEN ScanWritable(cs, idx, cur, could_write, line,
                      ContainerCheckAndSet(cs[idx + 1], line))
    ELSE ScanOther(cs, idx, cur, could_write, line, ContainerCheck(cs[idx + 1], line))

Scan(cs, idx, cur, could_write, line) ==
    IF idx >= Len(cs) THEN Scanned(cs, FALSE, FALSE, FALSE)
    ELSE IF could_write /\ idx = cur
    THEN ScanWritable(cs, idx, cur, could_write, line,
                      ContainerCheckAndSet(cs[idx + 1], line))
    ELSE ScanOther(cs, idx, cur, could_write, line, ContainerCheck(cs[idx + 1], line))

\* A step 3 that writes whenever the value was found, whether or not the
\* scan counted it as written.
Step3WritesWheneverFound(could_write, scan) ==
    scan.value_found /\ could_write /\ ~scan.panic

\* Whether step 3 of process_line writes: the value was found, but not
\* written, and there is a writable container.
Step3Writes(could_write, scan) ==
    scan.value_found /\ could_write /\ ~scan.value_written /\ ~scan.panic

\* Step 4 of process_line, and what the call leaves: the containers and the
\* cursor after the line, what the scan found, and whether the line is
\* printed. set is the outcome of the set() of step 3.
Step4(cur, could_write, scan, set) ==
    [containers |-> IF Step3Writes(could_write, scan) /\ ~set.panic
                    THEN [scan.containers EXCEPT ![cur + 1] = set.c]
                    ELSE scan.containers,
     cursor |-> cur,
     could_write |-> could_write,
     value_found |-> scan.value_found,
     value_written |-> scan.value_written,
     print |-> /\ \/ (~scan.value_found /\ ~inverse)
                  \/ (scan.value_found /\ inverse)
               /\ ~silent,
     panic |-> scan.panic \/ set.panic]

\* Step 3 of process_line, then step 4.
Step3(cur, could_write, scan, line) ==
    Step4(cur, could_write, scan,
          IF Step3Writes(could_write, scan)
          THEN ContainerSet(scan.containers[cur + 1], line)
          ELSE Result(<<>>, FALSE, FALSE))

\* Steps 2 to 4 of process_line with the cursor of step 1.
ProcessLineAt(cs, cur, could_write, line) ==
    Step3(cur, could_write, Scan(cs, 0, cur, could_write, line), line)

\* A process_line that takes the write branch whatever the mode.
ProcessLineWriting(cs, cur0, line) ==
    ProcessLineAt(cs, AdvanceCursor(cs, cur0), AdvanceCursor(cs, cur0) < Len(cs), line)

\* process_line()
ProcessLine(cs, cur0, line) ==
    IF write_mode
    THEN ProcessLineAt(cs, AdvanceCursor(cs, cur0),
                       AdvanceCursor(cs, cur0) < Len(cs), line)
    ELSE ProcessLineAt(cs, cur0, FALSE, line)

\* What process() notes about one line.
LogEntry(line, looked_up, r, emitted) ==
    [line |-> line, looked_up |-> looked_up, could_write |-> r.could_write,
     cursor |-> r.cursor, found |-> r.value_found, inserted |-> r.containers # containers,
     emitted |-> emitted]

\* The two write() calls of step 4 on w = [buf, out].
WriteLine(w, line, accepted) == BufWrite(BufWrite(w, line, accepted), <<NL>>, 1)

\* The state after process_line returned r for the line of buf; printed is
\* the writer after it.
AfterLine(buf, line, r, printed) ==
    /\ input' = input \o buf
    /\ stdin_eof' = (buf[Len(buf)] # NL)
    /\ containers' = r.containers
    /\ curr_container_idx' = r.cursor
    /\ log' = Append(log, LogEntry(line, TRUE, r, r.print /\ ~r.panic))
    /\ IF r.panic
       THEN /\ pc' = "abort"
            /\ stdout_lock' = <<>>
            /\ stdout' = printed.out \o printed.buf
       ELSE /\ pc' = pc
            /\ stdout_lock' = printed.buf
            /\ stdout' = printed.out

\* process_line on the line of buf, and the state after it.
CallProcessLine(buf, line, r, accepted) ==
    AfterLine(buf, line, r,
              IF r.print /\ ~r.panic
              THEN WriteLine([buf |-> stdout_lock, out |-> stdout], line, accepted)
              ELSE [buf |-> stdout_lock, out |-> stdout])

\* The loop body of process() for a line that is valid UTF-8: process_line.
ProcessValidLine ==
    /\ pc = "stream"
    /\ ~stdin_eof
    /\ \E buf \in {ReadUntil(stream) : stream \in ByteSeqs(MaxInput - Len(input))} :
         /\ IsUtf8(StripNewline(buf))
         /\ \E accepted \in Accepted(StripNewline(buf)) :
              CallProcessLine(buf, StripNewline(buf),
                              ProcessLine(containers, curr_container_idx,
                                          StripNewline(buf)),
                              accepted)
    /\ UNCHANGED <<write_mode, stderr, run, args, stdin_bytes, inverse, silent, files, last, inserted, saved, loaded>>

\* The two write_all() calls of the Err branch on w = [buf, out].
WriteAllLine(w, line) == BufWriteAll(BufWriteAll(w, line), <<NL>>)

\* The state after the Err branch wrote the line of buf; printed is the
\* writer after it.
AfterInvalidLine(buf, line, printed) ==
    /\ input' = input \o buf
    /\ stdin_eof' = (buf[Len(buf)] # NL)
    /\ log' = Append(log, [line |-> line, looked_up |-> FALSE,
                           could_write |-> FALSE, cursor |-> curr_container_idx,
                           found |-> FALSE, inserted |-> FALSE, emitted |-> TRUE])
    /\ stdout_lock' = printed.buf
    /\ stdout' = printed.out

\* The loop body of process() for a line that is not valid UTF-8: the raw
\* bytes and a newline are written, no container is consulted.
ProcessInvalidLine ==
    /\ pc = "stream"
    /\ ~stdin_eof
    /\ \E buf \in {ReadUntil(stream) : stream \in ByteSeqs(MaxInput - Len(input))} :
         /\ ~IsUtf8(StripNewline(buf))
         /\ AfterInvalidLine(buf, StripNewline(buf),
                             WriteAllLine([buf |-> stdout_lock, out |-> stdout],
                                          StripNewline(buf)))
    /\ UNCHANGED <<pc, containers, write_mode, stderr, run, args, stdin_bytes, inverse, silent, curr_container_idx,
                   files, last, inserted, saved, loaded>>

\* An end of the loop that leaves the BufWriter's bytes where they are.
ReadEofUnflushed ==
    /\ pc = "stream"
    /\ pc' = "save"
    /\ UNCHANGED <<containers, write_mode, stderr, run, args, stdin_bytes, inverse, silent,
                   curr_container_idx, input, stdin_eof, stdout_lock, stdout, files, log,
                   last, inserted, saved, loaded>>

\* read_until returns Ok(0): the loop ends, the BufWriter is dropped (flushed)
\* and process() returns to main().
ReadEof ==
    /\ pc = "stream"
    /\ pc' = "save"
    /\ stdout' = stdout \o stdout_lock
    /\ stdout_lock' = <<>>
    /\ UNCHANGED <<containers, write_mode, stderr, run, args, stdin_bytes, inverse, silent, curr_container_idx, input,
                   stdin_eof, files, log, last, inserted, saved, loaded>>

\* An end of main() that saves every File container whatever the mode.
SaveContainersAnyMode ==
    /\ pc = "save"
    /\ pc' = "exit"
    /\ files' = [path \in DOMAIN files |->
                   IF path \in 1..Len(containers)
                      /\ containers[path].container_details.data_source = "File"
                   THEN Save(containers[path]) ELSE files[path]]
    /\ UNCHANGED <<containers, write_mode, stderr, run, args, stdin_bytes, inverse, silent, curr_container_idx, input,
                   stdin_eof, stdout_lock, stdout, log, last, inserted, saved, loaded>>

\* The end of main(): in write mode every File container is saved.
SaveContainers ==
    /\ pc = "save"
    /\ pc' = "exit"
    /\ files' = [path \in DOMAIN files |->
                   IF write_mode /\ path \in 1..Len(containers)
                      /\ containers[path].container_details.data_source = "File"
                   THEN Save(containers[path]) ELSE files[path]]
    /\ UNCHANGED <<containers, write_mode, stderr, run, args, stdin_bytes, inverse, silent, curr_container_idx, input,
                   stdin_eof, stdout_lock, stdout, log, last, inserted, saved, loaded>>

\* ------------------------------------------------------------------- main

\* The construction details the command line can give (-xls, -bls, -ble):
\* limits of one and two lines; an xxHash filter of one slot, a Bloom filter
\* of one byte, a Bloom filter for an error rate of 0.5.
Limits == {1, 2}

ConstructionChoices ==
    {ConstructionDetails("XXHLimitAndSize", limit, 0, 3) : limit \in Limits}
    \cup {ConstructionDetails("BloomLinesAndSize", limit, 0, 1) : limit \in Limits}
    \cup {ConstructionDetails("BloomLinesAndErrorRate", limit, 500, 0) : limit \in Limits}

\* The numbers of containers a run is started with.
ContainerCounts == {1, 2}

\* The keys the two sip_new() calls of the i-th Bloom::new draw from a random
\* source in state seed.
SipNew(seed, i) ==
    <<<<16 * seed + 4 * i + 1, 16 * seed + 4 * i + 2>>,
      <<16 * seed + 4 * i + 3, 16 * seed + 4 * i + 4>>>>

\* The states of the random source main() is started with.
Seeds == {1}

\* No direct container call yet.
NoCall == [op |-> "none", arg |-> <<>>, ret |-> FALSE, prev |-> "none"]

\* main() up to the call of process(): the flags, and one new container per
\* construction detail, all in memory (write mode is then forced) or all
\* backed by files that do not exist yet.
InitOver(bytes) ==
    /\ pc = "stream"
    /\ \E data_source \in {"Memory", "File"}, n \in ContainerCounts :
         \E cds \in [1..n -> ConstructionChoices], seed \in Seeds :
            /\ containers = [i \in 1..n |->
                               FromDetails(ContainerDetails(i, data_source, cds[i]),
                                           SipNew(seed, i))]
            /\ files = [i \in 1..n |-> <<>>]
            /\ write_mode \in (IF data_source = "Memory" THEN {TRUE} ELSE BOOLEAN)
            /\ args = Args(IF data_source = "File" THEN n ELSE 0, cds)
    /\ stdin_bytes = bytes
    /\ inverse \in BOOLEAN
    /\ silent \in BOOLEAN
    /\ curr_container_idx = 0
    /\ input = <<>>
    /\ stdin_eof = FALSE
    /\ stdout_lock = <<>>
    /\ stdout = <<>>
    /\ log = <<>>
    /\ last = NoCall
    /\ inserted = {}
    /\ saved = <<>>
    /\ loaded = FALSE
    /\ stderr = <<>>
    /\ run = FirstRun

\* main() up to process(), over a standard input of the bytes 0A, 'a', FF.
Init == InitOver(InputBytes)

Next ==
    \/ ProcessValidLine
    \/ ProcessInvalidLine
    \/ ReadEof
    \/ SaveContainers

Spec == Init /\ [][Next]_vars

\* main() and process() over a standard input of the bytes 0A, 0D, 'a'.
CrlfInit == InitOver(CrlfBytes)

\* These bytes form valid UTF-8 only, so every line read goes to
\* process_line and the Err branch of process() is never taken.
CrlfNext ==
    \/ ProcessValidLine
    \/ ReadEof
    \/ SaveContainers

CrlfSpec == CrlfInit /\ [][CrlfNext]_vars

\* The program takes its next step when it can: a read at the end of stdin
\* returns Ok(0), and main() goes on after process() has returned. That a
\* further line arrives is up to whoever writes to stdin.
FairSpec ==
    /\ Spec
    /\ WF_vars(stdin_eof /\ ReadEof)
    /\ WF_vars(SaveContainers)

\* ------------------------------------------------ main, stdin failing

\* The bytes read_until has taken from stdin and appended to buf when a read
\* fails: none, or a piece of a line without its newline.
PartialLines(n) ==
    {<<>>} \cup UNION {[1..k -> stdin_bytes \ {NL}] : k \in 1..n}

\* The loop body of process() when read_until returns Err: the error is
\* reported with line_idx, which is not advanced, and the loop continues;
\* buf.clear() drops the bytes read_until had taken before it failed.
ReadError ==
    /\ pc = "stream"
    /\ ~stdin_eof
    /\ Len(stderr) < MaxErrors
    /\ \E consumed \in PartialLines(MaxInput - Len(input)) :
         /\ input' = input \o consumed
         /\ stderr' = Append(stderr, [line_idx |-> Len(log), offset |-> Len(input),
                                      consumed |-> consumed])
    /\ UNCHANGED <<pc, containers, write_mode, run, args, stdin_bytes, inverse, silent, curr_container_idx,
                   stdin_eof, stdout_lock, stdout, files, log, last, inserted, saved,
                   loaded>>

ReadErrorInit == Init /\ ~inverse /\ ~silent

ReadErrorNext ==
    \/ Next
    \/ ReadError

ReadErrorSpec == ReadErrorInit /\ [][ReadErrorNext]_vars

\* ------------------------------------------------------- main, run twice

\* Whether the sequence p starts the sequence s.
IsPrefix(p, s) == Len(p) <= Len(s) /\ SubSeq(s, 1, Len(p)) = p

\* The program is run in write mode, and then once more without -w over the
\* same standard input and the containers the first run left.
TwoPassInit == Init /\ write_mode

\* A step of the first run.
FirstPass == run.pass = 1 /\ Next

\* main() of the second run: params.write_mode is false, process() starts
\* with curr_container_idx = 0 and a new BufWriter.
StartSecondPass ==
    /\ pc = "exit"
    /\ run.pass = 1
    /\ pc' = "stream"
    /\ run' = [pass |-> 2, previous |-> input]
    /\ write_mode' = FALSE
    /\ curr_container_idx' = 0
    /\ input' = <<>>
    /\ stdin_eof' = FALSE
    /\ stdout_lock' = <<>>
    /\ stdout' = <<>>
    /\ log' = <<>>
    /\ UNCHANGED <<containers, inverse, silent, files, last, inserted, saved, loaded,
                   stderr, args, stdin_bytes>>

\* The loop body of process() in the second run: stdin yields the bytes of
\* the first run again.
SecondPassLine ==
    /\ run.pass = 2
    /\ ProcessValidLine \/ ProcessInvalidLine
    /\ IsPrefix(input', run.previous)
    /\ stdin_eof' => input' = run.previous

\* The end of the second run, once all of the first run's input is read.
SecondPassEnd ==
    /\ run.pass = 2
    /\ input = run.previous
    /\ ReadEof \/ SaveContainers

TwoPassNext ==
    \/ FirstPass
    \/ StartSecondPass
    \/ SecondPassLine
    \/ SecondPassEnd

TwoPassSpec == TwoPassInit /\ [][TwoPassNext]_vars

\* ----------------------------------------- the container interface, driven

\* The values passed to the container calls (a String is valid UTF-8).
ApiValues == {<<>>, <<97>>, <<98>>, <<97, 97>>}

\* The containers the interface is exercised on: xxHash filters of one and of
\* three slots, Bloom filters of one byte and for error rates 0.5 and 0.01.
ApiChoices ==
    {ConstructionDetails("XXHLimitAndSize", limit, 0, size) :
        limit \in Limits, size \in {3, 8}}
    \cup {ConstructionDetails("BloomLinesAndSize", limit, 0, 1) : limit \in Limits}
    \cup {ConstructionDetails("BloomLinesAndErrorRate", limit, fp_p, 0) :
            limit \in Limits, fp_p \in {500, 10}}

\* The states of the random source a directly built container draws from.
ApiSeeds == {1, 2}

\* The record of a direct call: prev is the call made just before on the
\* same argument, "none" if the call before had another argument.
Call(op, arg, ret) ==
    [op |-> op, arg |-> arg, ret |-> ret,
     prev |-> IF last.op # "none" /\ last.arg = arg THEN last.op ELSE "none"]

\* A container before any call: built by from_details, or built by from_file
\* from the file a new container was saved to.
ApiInit ==
    /\ pc = "api"
    /\ \E cd \in ApiChoices, seed \in ApiSeeds :
         LET new == FromDetails(ContainerDetails(1, "File", cd), SipNew(seed, 1)) IN
         \/ /\ containers = <<new>>
            /\ files = [i \in 1..1 |-> <<>>]
            /\ saved = <<>>
            /\ loaded = FALSE
         \/ /\ FromFileError(Save(new)) = "none"
            /\ containers = <<FromFile(1, Save(new), SipNew(0, 1))>>
            /\ files = [i \in 1..1 |-> Save(new)]
            /\ saved = new
            /\ loaded = TRUE
    /\ write_mode = TRUE
    /\ inverse = FALSE
    /\ silent = FALSE
    /\ curr_container_idx = 0
    /\ input = <<>>
    /\ stdin_eof = FALSE
    /\ stdout_lock = <<>>
    /\ stdout = <<>>
    /\ log = <<>>
    /\ last = NoCall
    /\ inserted = {}
    /\ stderr = <<>>
    /\ run = FirstRun
    /\ args = NoArgs
    /\ stdin_bytes = InputBytes

ApiUnchanged ==
    UNCHANGED <<write_mode, stderr, run, args, stdin_bytes, inverse, silent, curr_container_idx, input, stdin_eof,
                stdout_lock, stdout, log>>

\* container.set(value)
ApiSet ==
    /\ pc = "api"
    /\ containers[1].num_writes <= MaxWrites
    /\ \E value \in ApiValues :
         LET r == ContainerSet(containers[1], value) IN
         /\ containers' = <<r.c>>
         /\ pc' = IF r.panic THEN "abort" ELSE pc
         /\ last' = Call("set", value, r.ret)
         /\ inserted' = inserted \cup {value}
    /\ UNCHANGED <<files, saved, loaded>>
    /\ ApiUnchanged

\* container.check(value)
ApiCheck ==
    /\ pc = "api"
    /\ \E value \in ApiValues :
         LET r == ContainerCheck(containers[1], value) IN
         /\ containers' = <<r.c>>
         /\ pc' = IF r.panic THEN "abort" ELSE pc
         /\ last' = Call("check", value, r.ret)
    /\ UNCHANGED <<files, saved, loaded, inserted>>
    /\ ApiUnchanged

\* container.check_and_set(value)
ApiCheckAndSet ==
    /\ pc = "api"
    /\ containers[1].num_writes <= MaxWrites
    /\ \E value \in ApiValues :
         LET r == ContainerCheckAndSet(containers[1], value) IN
         /\ containers' = <<r.c>>
         /\ pc' = IF r.panic THEN "abort" ELSE pc
         /\ last' = Call("check_and_set", value, r.ret)
         /\ inserted' = inserted \cup {value}
    /\ UNCHANGED <<files, saved, loaded>>
    /\ ApiUnchanged

ApiNext ==
    \/ ApiSet
    \/ ApiCheck
    \/ ApiCheckAndSet

ApiSpec == ApiInit /\ [][ApiNext]_vars

\* ------------------------------- the xxHash container of any size, driven

\* The sizes in bytes an xxHash container is built with: below one slot of
\* 21 bits (1 and 2), one slot (3) and three slots (8).
XxhSizes == {1, 2, 3, 8}

\* An xxHash container built by new_limit_and_size() with a size of at
\* least one byte and a capacity of at least one write, before any call.
XxhApiInit ==
    /\ pc = "api"
    /\ \E limit \in Limits, size \in XxhSizes :
         containers =
             <<FromDetails(ContainerDetails(1, "Memory",
                   ConstructionDetails("XXHLimitAndSize", limit, 0, size)), SipNew(1, 1))>>
    /\ files = [i \in 1..1 |-> <<>>]
    /\ saved = <<>>
    /\ loaded = FALSE
    /\ write_mode = TRUE
    /\ inverse = FALSE
    /\ silent = FALSE
    /\ curr_container_idx = 0
    /\ input = <<>>
    /\ stdin_eof = FALSE
    /\ stdout_lock = <<>>
    /\ stdout = <<>>
    /\ log = <<>>
    /\ last = NoCall
    /\ inserted = {}
    /\ stderr = <<>>
    /\ run = FirstRun
    /\ args = NoArgs
    /\ stdin_bytes = InputBytes

XxhApiSpec == XxhApiInit /\ [][ApiNext]_vars

\* ------------------------------------------------- save and load, driven

\* A new container; values are then inserted, the container is saved and the
\* file is loaded.
CodecInit ==
    /\ pc = "api"
    /\ \E cd \in ApiChoices, seed \in ApiSeeds :
         containers = <<FromDetails(ContainerDetails(1, "File", cd), SipNew(seed, 1))>>
    /\ files = [i \in 1..1 |-> <<>>]
    /\ saved = <<>>
    /\ loaded = FALSE
    /\ write_mode = TRUE
    /\ inverse = FALSE
    /\ silent = FALSE
    /\ curr_container_idx = 0
    /\ input = <<>>
    /\ stdin_eof = FALSE
    /\ stdout_lock = <<>>
    /\ stdout = <<>>
    /\ log = <<>>
    /\ last = NoCall
    /\ inserted = {}
    /\ stderr = <<>>
    /\ run = FirstRun
    /\ args = NoArgs
    /\ stdin_bytes = InputBytes

\* container.save()
CodecSave ==
    /\ pc = "api"
    /\ pc' = "saved"
    /\ files' = [files EXCEPT ![1] = Save(containers[1])]
    /\ saved' = containers[1]
    /\ last' = NoCall
    /\ UNCHANGED <<containers, inserted, loaded>>
    /\ ApiUnchanged

\* <dyn Container>::from_file(path) of the saved file: a container of its own,
\* with keys drawn anew before load_content.
CodecLoad ==
    /\ pc = "saved"
    /\ IF FromFileError(files[1]) = "none"
       THEN /\ containers' = <<FromFile(1, files[1], SipNew(0, 1))>>
            /\ pc' = "loaded"
       ELSE /\ containers' = containers
            /\ pc' = "abort"
    /\ loaded' = TRUE
    /\ UNCHANGED <<files, saved, inserted, last>>
    /\ ApiUnchanged

CodecNext ==
    \/ ApiSet
    \/ ApiCheckAndSet
    \/ CodecSave
    \/ CodecLoad

CodecSpec == CodecInit /\ [][CodecNext]_vars

\* ------------------------------------------------- save, write by write

\* The data of the write calls Container::save makes on the file, in order:
\* the header field by field, the padding byte by byte, and the content,
\* which leaves its BufWriter in one write.
SaveWrites(c) ==
    LET cd == c.container_details.construction_details IN
    <<MAGIC,
      <<TypeToU8(cd.construction_type)>>,
      WriteU64(cd.size),
      WriteU64(cd.limit),
      WriteF64(cd.error_rate),
      WriteU64(c.num_writes),
      WriteU64(c.max_writes)>>
    \o [i \in 1..HeaderPadding |-> <<0>>]
    \o <<IF IsBloom(c) THEN BloomSaveContent(c) ELSE XxhSaveContent(c)>>

\* The write call that follows when pos bytes of the file are written.
RECURSIVE NextWrite(_, _)
NextWrite(writes, pos) ==
    IF pos = 0 THEN Head(writes)
    ELSE NextWrite(Tail(writes), pos - Len(Head(writes)))

\* File::create(path): the file exists and is empty.
SaveCreate ==
    /\ pc = "api"
    /\ pc' = "saving"
    /\ files' = [files EXCEPT ![1] = <<>>]
    /\ last' = NoCall
    /\ UNCHANGED <<containers, saved, inserted, loaded>>
    /\ ApiUnchanged

\* One write call of save or save_content reaches the file.
SaveWrite ==
    /\ pc = "saving"
    /\ Len(files[1]) < Len(Save(containers[1]))
    /\ files' = [files EXCEPT
                   ![1] = @ \o NextWrite(SaveWrites(containers[1]), Len(@))]
    /\ UNCHANGED <<pc, containers, saved, inserted, loaded, last>>
    /\ ApiUnchanged

\* save returns: the file is closed.
SaveReturn ==
    /\ pc = "saving"
    /\ Len(files[1]) = Len(Save(containers[1]))
    /\ pc' = "api"
    /\ saved' = containers[1]
    /\ UNCHANGED <<containers, files, inserted, loaded, last>>
    /\ ApiUnchanged

SaveNext ==
    \/ ApiCheckAndSet
    \/ SaveCreate
    \/ SaveWrite
    \/ SaveReturn

SaveSpec == CodecInit /\ [][SaveNext]_vars

\* ------------------------------------------ main, over an existing file

\* The file with the byte at `offset` (counted from 0) replaced.
WithByteAt(file, offset, byte) == [file EXCEPT ![offset + 1] = byte]

\* The containers whose files the program is started on: new ones of each
\* construction type, and the same after one line was inserted.
SavedContainers ==
    LET new == {FromDetails(ContainerDetails(1, "File", cd), SipNew(1, 1)) :
                  cd \in {ConstructionDetails("XXHLimitAndSize", 2, 0, 3),
                          ConstructionDetails("BloomLinesAndSize", 2, 0, 1),
                          ConstructionDetails("BloomLinesAndErrorRate", 2, 500, 0)}}
    IN  new \cup {ContainerCheckAndSet(c, <<97>>).c : c \in new}

\* The lengths a file is cut to: inside the magic, after it, after the kind
\* byte, inside the header, after the header, inside the content and one
\* byte before the end.
CutLengths(file) ==
    {n \in {2, 4, 5, 60, HeaderLen, HeaderLen + 1, HeaderLen + 16, HeaderLen + 32,
            Len(file) - 1} : n < Len(file)}

\* The files found at the path: saved containers, whole, with another first
\* byte, with a kind byte no construction type has, with both, or cut short.
LoadFiles ==
    UNION {{file,
            WithByteAt(file, 0, 0),
            WithByteAt(file, 4, 3),
            WithByteAt(file, 4, 255),
            WithByteAt(WithByteAt(file, 4, 3), 0, 0)}
           \cup {SubSeq(file, 1, n) : n \in CutLengths(file)} :
           file \in {Save(c) : c \in SavedContainers}}

\* main() is started with one construction argument and the path of an
\* existing file.
LoadInit ==
    /\ pc = "setup"
    /\ containers = <<>>
    /\ files \in [1..1 -> LoadFiles]
    /\ write_mode \in BOOLEAN
    /\ inverse = FALSE
    /\ silent = FALSE
    /\ curr_container_idx = 0
    /\ input = <<>>
    /\ stdin_eof = FALSE
    /\ stdout_lock = <<>>
    /\ stdout = <<>>
    /\ log = <<>>
    /\ last = NoCall
    /\ inserted = {}
    /\ saved = <<>>
    /\ loaded = FALSE
    /\ stderr = <<>>
    /\ run = FirstRun
    /\ args = Args(1, <<ConstructionDetails("XXHLimitAndSize", 2, 0, 3)>>)
    /\ stdin_bytes = InputBytes

\* A main() that falls back to a new default container when the file is
\* not accepted.
MainLoadLenient ==
    /\ pc = "setup"
    /\ pc' = "stream"
    /\ containers' =
          <<IF FromFileError(files[1]) = "none"
            THEN FromFile(1, files[1], SipNew(0, 1))
            ELSE FromDetails(ContainerDetails(1, "File",
                                 ConstructionDetails("XXHLimitAndSize", 2, 0, 3)),
                             SipNew(0, 1))>>
    /\ loaded' = TRUE
    /\ UNCHANGED <<write_mode, stderr, run, args, stdin_bytes, inverse, silent, curr_container_idx, input,
                   stdin_eof, stdout_lock, stdout, files, log, last, inserted, saved>>

\* main() up to process(): the path exists, so the container comes from
\* from_file, which ends the process when it does not accept the file.
MainLoad ==
    /\ pc = "setup"
    /\ IF FromFileError(files[1]) = "none"
       THEN /\ containers' = <<FromFile(1, files[1], SipNew(0, 1))>>
            /\ pc' = "stream"
            /\ loaded' = TRUE
            /\ stderr' = stderr
       ELSE /\ containers' = containers
            /\ pc' = "abort"
            /\ loaded' = loaded
            /\ stderr' = Append(stderr, FromFileError(files[1]))
    /\ UNCHANGED <<write_mode, run, args, stdin_bytes, inverse, silent, curr_container_idx, input,
                   stdin_eof, stdout_lock, stdout, files, log, last, inserted, saved>>

LoadNext ==
    \/ MainLoad
    \/ ProcessValidLine
    \/ ProcessInvalidLine
    \/ ReadEof
    \/ SaveContainers

LoadSpec == LoadInit /\ [][LoadNext]_vars

\* ------------------------------------------- main, from the command line

\* The construction details of the default container.
DefaultDetails == ConstructionDetails("XXHLimitAndSize", DefaultLimit, 0, DefaultSize)

\* The construction arguments given on the command line: -xls 2,3, -bls 1,1,
\* and the same with a limit of 0.
ArgChoices ==
    {ConstructionDetails("XXHLimitAndSize", 2, 0, 3),
     ConstructionDetails("BloomLinesAndSize", 1, 0, 1),
     ConstructionDetails("XXHLimitAndSize", 0, 0, 3),
     ConstructionDetails("BloomLinesAndSize", 0, 0, 1)}

\* The lists of construction arguments: none, one, two, and one list of
\* three.
ArgLists ==
    {<<>>}
    \cup [1..1 -> ArgChoices]
    \cup [1..2 -> ArgChoices]
    \cup {[i \in 1..3 |-> ConstructionDetails("XXHLimitAndSize", 2, 0, 3)]}

\* The files that exist at a path when the program starts: an xxHash and a
\* Bloom container saved by an earlier run that inserted the line "a".
ExistingFiles ==
    {Save(ContainerCheckAndSet(
              FromDetails(ContainerDetails(1, "File", cd), SipNew(1, 1)), <<97>>).c) :
        cd \in {ConstructionDetails("XXHLimitAndSize", 2, 0, DefaultSize),
                ConstructionDetails("BloomLinesAndSize", 2, 0, 1)}}

\* The program is started with up to two --file paths, each existing or
\* not, any list of construction arguments, and with or without -w.
MainInit ==
    /\ pc = "setup"
    /\ containers = <<>>
    /\ \E n \in 0..2 :
         /\ args \in {Args(n, cds) : cds \in ArgLists}
         /\ files \in [1..n -> {<<>>} \cup ExistingFiles]
    /\ write_mode \in BOOLEAN
    /\ stdin_bytes = InputBytes
    /\ inverse = FALSE
    /\ silent = FALSE
    /\ curr_container_idx = 0
    /\ input = <<>>
    /\ stdin_eof = FALSE
    /\ stdout_lock = <<>>
    /\ stdout = <<>>
    /\ log = <<>>
    /\ last = NoCall
    /\ inserted = {}
    /\ saved = <<>>
    /\ loaded = FALSE
    /\ stderr = <<>>
    /\ run = FirstRun

\* `if constructions_details.is_empty()`: one default xxHash container, or
\* one per file path, all new.
DefaultContainers(a) ==
    IF a.constructions_details # <<>> THEN <<>>
    ELSE [idx \in 1..Max(1, a.file_paths) |->
            FromDetails(ContainerDetails(idx,
                                         IF a.file_paths = 0 THEN "Memory" ELSE "File",
                                         DefaultDetails),
                        SipNew(1, idx))]

\* The loops over constructions_details: with file paths, the container of
\* the idx-th argument comes from the idx-th file if that exists and is new
\* otherwise; without file paths it is a new Memory container.
ArgumentContainers(a, fs) ==
    [idx \in 1..Len(a.constructions_details) |->
        IF a.file_paths > 0 /\ fs[idx] # <<>>
        THEN FromFile(idx, fs[idx], SipNew(0, idx))
        ELSE FromDetails(ContainerDetails(idx,
                                          IF a.file_paths > 0 THEN "File" ELSE "Memory",
                                          a.constructions_details[idx]),
                         SipNew(1, idx))]

\* Why the idx-th argument yields no container ("none" if it does): the
\* file is not accepted by from_file, or from_details panics.
ArgumentError(a, fs, idx) ==
    IF a.file_paths > 0 /\ fs[idx] # <<>> THEN FromFileError(fs[idx])
    ELSE IF FromDetailsPanics(ContainerDetails(idx, "File", a.constructions_details[idx]))
         THEN "construct"
    ELSE "none"

\* What main() reports before process(): a count of construction arguments
\* that is above one and differs from the number of file paths, or the
\* error of the first argument that yields no container; "none" otherwise.
SetupError(a, fs) ==
    LET nd == Len(a.constructions_details)
        failing == {idx \in 1..nd : ArgumentError(a, fs, idx) # "none"}
    IN  IF a.file_paths > 0 /\ nd > 1 /\ nd # a.file_paths THEN "count"
        ELSE IF failing = {} THEN "none"
        ELSE ArgumentError(a, fs, CHOOSE idx \in failing : \A j \in failing : idx <= j)

\* main() from the end of argument parsing up to process().
MainSetup ==
    /\ pc = "setup"
    /\ write_mode' = (write_mode \/ args.file_paths = 0)
    /\ IF SetupError(args, files) = "none"
       THEN /\ containers' = DefaultContainers(args) \o ArgumentContainers(args, files)
            /\ pc' = "stream"
            /\ stderr' = stderr
       ELSE /\ containers' = containers
            /\ pc' = "abort"
            /\ stderr' = Append(stderr, SetupError(args, files))
    /\ UNCHANGED <<run, args, stdin_bytes, inverse, silent, curr_container_idx, input,
                   stdin_eof, stdout_lock, stdout, files, log, last, inserted, saved,
                   loaded>>

MainNext ==
    \/ MainSetup
    \/ ProcessValidLine
    \/ ProcessInvalidLine
    \/ ReadEof
    \/ SaveContainers

MainSpec == MainInit /\ [][MainNext]_vars

\* ------------------------------------------------ properties of the pipeline

\* Every byte written so far, flushed or still buffered.
Output == stdout \o stdout_lock

\* The lines of a byte stream, split at the newlines.
RECURSIVE SplitLines(_)
SplitLines(bytes) ==
    IF bytes = <<>> THEN <<>>
    ELSE IF \E i \in 1..Len(bytes) : bytes[i] = NL
    THEN LET i == CHOOSE i \in 1..Len(bytes) :
                     bytes[i] = NL /\ \A j \in 1..(i - 1) : bytes[j] # NL
         IN  <<SubSeq(bytes, 1, i - 1)>> \o SplitLines(SubSeq(bytes, i + 1, Len(bytes)))
    ELSE <<bytes>>

\* Each line followed by one newline byte, concatenated.
RECURSIVE Terminated(_)
Terminated(lines) ==
    IF lines = <<>> THEN <<>> ELSE Head(lines) \o <<NL>> \o Terminated(Tail(lines))

\* The lines from position i on that did not occur (keep = TRUE) or did occur
\* (keep = FALSE) at an earlier position.
RECURSIVE Occurrences(_, _, _)
Occurrences(lines, i, first) ==
    IF i > Len(lines) THEN <<>>
    ELSE (IF first = (\A j \in 1..(i - 1) : lines[j] # lines[i])
          THEN <<lines[i]>> ELSE <<>>) \o Occurrences(lines, i + 1, first)

FirstOccurrences(lines) == Occurrences(lines, 1, TRUE)

LaterOccurrences(lines) == Occurrences(lines, 1, FALSE)

\* The lines process() decided to emit, in the order it read them.
EmittedLines ==
    LET emitted == SelectSeq(log, LAMBDA e : e.emitted)
    IN  [i \in 1..Len(emitted) |-> emitted[i].line]

\* No lookup reported a line as present that had not occurred before.
NoFalsePositive ==
    \A i \in 1..Len(log) :
        log[i].found => \E j \in 1..(i - 1) : log[j].line = log[i].line

\* A single container, held in memory.
OneMemoryContainer ==
    /\ Len(containers) = 1
    /\ containers[1].container_details.data_source = "Memory"

\* a is b with some elements left out.
RECURSIVE IsSubsequence(_, _)
IsSubsequence(a, b) ==
    IF a = <<>> THEN TRUE
    ELSE IF b = <<>> THEN FALSE
    ELSE IF Head(a) = Head(b) THEN IsSubsequence(Tail(a), Tail(b))
    ELSE IsSubsequence(a, Tail(b))

\* C1: with one memory container in write mode, inverse and silent off, and
\* no false positive from the filter, the emitted lines are the distinct
\* input lines in order of first occurrence, each once.
C1_FirstOccurrencesEmitted ==
    (/\ pc \in {"stream", "save", "exit"}
     /\ OneMemoryContainer /\ write_mode /\ ~inverse /\ ~silent
     /\ NoFalsePositive)
    => EmittedLines = FirstOccurrences(SplitLines(input))

\* C2: with inverse on and silent off, in write mode and with no false
\* positive from the filter, the emitted lines are the complement: the first
\* occurrence of each line is suppressed and every later occurrence is
\* emitted, in input order.
C2_InverseEmitsLaterOccurrences ==
    (/\ pc \in {"stream", "save", "exit"}
     /\ OneMemoryContainer /\ write_mode /\ inverse /\ ~silent
     /\ NoFalsePositive)
    => EmittedLines = LaterOccurrences(SplitLines(input))

\* C3: with silent on nothing is written to standard output, whatever the
\* bytes of the input lines and whatever inverse is.
C3_SilentWritesNothing ==
    silent => Output = <<>>

\* C4: a line that is not valid UTF-8 is admitted like any other line: it is
\* looked up by its raw bytes, and in write mode with inverse off, while a
\* container still has room, a later occurrence of the same bytes is not
\* emitted.
C4_InvalidUtf8Deduplicated ==
    \A j \in 1..Len(log) :
        ~IsUtf8(log[j].line) =>
            /\ log[j].looked_up
            /\ (/\ write_mode /\ ~inverse
                /\ AdvanceCursor(containers, curr_container_idx) < Len(containers)
                /\ \E i \in 1..(j - 1) : log[i].line = log[j].line)
               => ~log[j].emitted

\* C5: standard output is the emitted lines in input order, each followed by
\* one newline byte and nothing else: the lines written are those the loop
\* decided to emit, they are a subsequence of the input lines, and every
\* line read is a line of the input.
C5_OutputIsEmittedLinesInOrder ==
        /\ Output = Terminated(EmittedLines)
        /\ [i \in 1..Len(log) |-> log[i].line] = SplitLines(input)
        /\ IsSubsequence(SplitLines(Output), SplitLines(input))
        /\ (Output # <<>> => Output[Len(Output)] = NL)

\* --------------------------------------- properties of the container calls

\* In an xxHash container all the slots tried for value hold other keys.
ProbesExhausted(c, value) ==
    /\ ~IsBloom(c)
    /\ c.num_slots > 0
    /\ LET hash == Xxh3_64(value)
           slot_idx == CalcSlotIndex(c, hash)
       IN  \A i \in 0..(c.num_tries - 1) :
               /\ GetSlotInUse(c, slot_idx + i)
               /\ ReadKey(c, slot_idx + i) # GetHashKeyValue(c, hash)

\* C6: for any filter, in any reachable state and for any value,
\* check_and_set(x) called twice in succession returns true the second time.
C6_SecondCheckAndSetTrue ==
    (pc = "api" /\ last.op = "check_and_set" /\ last.prev = "check_and_set")
    => last.ret

\* C7: for any filter, in any reachable state and for any value, set(x)
\* followed immediately by check(x) returns true (and check returns).
C7_SetThenCheckTrue ==
    (last.op = "check" /\ last.prev = "set") => (pc = "api" /\ last.ret)

\* C7 happens where it is least obvious: set(x) could not store x, all the
\* tried slots being taken by other keys, and check(x) still answered true.
C7_Witness ==
    /\ pc = "api"
    /\ last.op = "check" /\ last.prev = "set" /\ last.ret
    /\ ProbesExhausted(containers[1], last.arg)

\* C8: a newly constructed Bloom container has no false negative: after set
\* and check_and_set calls on at most `limit` distinct values, interleaved
\* with any other calls, check(x) returns true for every inserted x.
C8_NoFalseNegative ==
    (/\ pc = "api" /\ ~loaded
     /\ IsBloom(containers[1])
     /\ Cardinality(inserted) <= containers[1].max_writes)
    => /\ \A x \in inserted :
            LET r == ContainerCheck(containers[1], x) IN r.ret /\ ~r.panic
       /\ (last.op = "check" /\ last.arg \in inserted) => last.ret

\* C8 happens: a new Bloom container holds as many values as its limit, put
\* in by both kinds of call, and a check of one of them has just been made.
C8_Witness ==
    /\ pc = "api" /\ ~loaded
    /\ IsBloom(containers[1])
    /\ containers[1].filter.k_num >= 2
    /\ Cardinality(inserted) = 2
    /\ containers[1].max_writes = 2
    /\ last.op = "check" /\ last.arg \in inserted /\ last.ret
    /\ last.prev = "check_and_set"

\* ------------------------------------------- properties of save and load

\* C9: saving a container and loading the file back preserves the membership
\* answers: for every construction kind, filter state and value x, check(x)
\* on the loaded container returns what check(x) returned before the save.
C9_RoundTripPreservesCheck ==
    pc = "loaded" =>
        \A x \in ApiValues :
            LET after == ContainerCheck(containers[1], x)
                before == ContainerCheck(saved, x)
            IN  ~after.panic /\ after.ret = before.ret

\* C10: a Bloom container loaded from a file addresses the same bits for
\* every input as the container that was saved: it has the saved seeds, the
\* same number of bits m and the same number of hash functions k.
C10_LoadedBloomSameParameters ==
    (pc = "loaded" /\ IsBloom(saved)) =>
        LET f == containers[1].filter
            g == saved.filter
        IN  /\ f.sips = g.sips
            /\ f.bitmap_bits = g.bitmap_bits
            /\ f.k_num = g.k_num
            /\ \A x \in ApiValues : \A k_i \in 0..(g.k_num - 1) :
                   BloomHash(f, x, k_i) = BloomHash(g, x, k_i)


\* --------------------------------------------- properties of the rollover

\* C11: the writable cursor never decreases during a run: after every line
\* it is at least what it was before the line, and it never exceeds the
\* number of containers.
C11_CursorMonotone ==
    [][/\ curr_container_idx' >= curr_container_idx
       /\ curr_container_idx' <= Len(containers')]_vars

\* C11 happens: the cursor has moved past one container and stands on the
\* next after three lines.
C11_Witness ==
    /\ Len(containers) = 2
    /\ curr_container_idx = 1
    /\ Len(log) = 3
    /\ log[1].cursor = 0 /\ log[3].cursor = 1

\* C12: in every state of a run every container below the writable cursor is
\* full, and a container that is below the cursor stays full and below it.
C12_BelowCursorFull ==
    [][/\ \A i \in 1..curr_container_idx : IsFull(containers[i])
       /\ \A i \in 1..curr_container_idx :
              i <= curr_container_idx' /\ IsFull(containers'[i])]_vars

\* C12 happens: both containers are below the cursor, full, and a line has
\* been looked up since the cursor went past the end.
C12_Witness ==
    /\ Len(containers) = 2
    /\ curr_container_idx = 2
    /\ IsFull(containers[1]) /\ IsFull(containers[2])
    /\ Len(log) >= 3
    /\ ~log[Len(log)].could_write /\ log[Len(log)].looked_up


\* ------------------------------------------------- properties of the exit

\* C15: when the run has ended, the file of a container holds the saved
\* container if write mode is on and the container's source is File, and is
\* untouched otherwise; a Memory container's file and, with write mode off,
\* every file is untouched in every state.
C15_SavedIffWriteModeAndFile ==
    \A i \in 1..Len(containers) :
        LET is_file == containers[i].container_details.data_source = "File"
        IN  /\ pc = "exit" =>
                 files[i] = (IF write_mode /\ is_file
                             THEN Save(containers[i]) ELSE <<>>)
            /\ (~write_mode \/ ~is_file) => files[i] = <<>>

\* C15 happens: a run with write mode off over File containers has ended
\* after looking lines up.
C15_WitnessReadOnly ==
    /\ pc = "exit"
    /\ ~write_mode
    /\ Len(log) >= 2
    /\ \A i \in 1..Len(containers) :
           containers[i].container_details.data_source = "File"

\* A run in write mode over two File containers has ended with both files
\* written.
C15_Witness ==
    /\ pc = "exit"
    /\ write_mode
    /\ Len(containers) = 2
    /\ \A i \in 1..2 : files[i] = Save(containers[i]) /\ files[i] # <<>>


\* The container, counted from 1, that receives the i-th of a stream of
\* distinct lines when the containers cs are filled in order from the k-th
\* on; 0 when all of them are full by then.
RECURSIVE FillTarget(_, _, _)
FillTarget(cs, k, i) ==
    IF k > Len(cs) THEN 0
    ELSE IF i <= cs[k].max_writes THEN k
    ELSE FillTarget(cs, k + 1, i - cs[k].max_writes)

\* The lines read so far are distinct.
DistinctLines ==
    \A i, j \in 1..Len(log) : i # j => log[i].line # log[j].line

\* C14: in write mode, over distinct lines and without false positives, the
\* i-th line is inserted into the container that filling in order assigns to
\* it, with the cursor on that container; a line that comes when all
\* containers are full finds the cursor past the end and is inserted nowhere;
\* the run does not abort and every line is emitted.
C14_FilledInOrder ==
    (write_mode /\ ~inverse /\ ~silent /\ DistinctLines /\ NoFalsePositive) =>
        /\ pc # "abort"
        /\ \A i \in 1..Len(log) :
              /\ log[i].emitted
              /\ IF FillTarget(containers, 1, i) = 0
                 THEN ~log[i].inserted /\ log[i].cursor = Len(containers)
                 ELSE log[i].inserted
                      /\ log[i].cursor = FillTarget(containers, 1, i) - 1

\* -------------------------------------------- properties of a second run

\* C13: in a run with write mode off over the input and the containers of a
\* run in write mode, every line that is looked up is found in a container
\* and is not emitted (without --inverse).
C13_SecondPassEmitsNothing ==
    (run.pass = 2 /\ ~inverse) =>
        \A i \in 1..Len(log) :
            log[i].looked_up => (log[i].found /\ ~log[i].emitted)


\* ----------------------------------------- properties of the saved file

\* The bytes at the path when the container c was saved completely; no
\* container saved yet means no file.
CompleteFile(c) == IF c = <<>> THEN <<>> ELSE Save(c)

\* C16: at every moment the file at the container's path holds either the
\* complete content of the previous save or the complete content of the
\* save in progress.
C16_SaveAtomic ==
    files[1] \in {CompleteFile(saved), CompleteFile(containers[1])}

\* Once save has returned, the write calls have left the complete content.
SaveReturnsCompleteFile ==
    (pc = "api" /\ saved # <<>>) => files[1] = Save(saved)


\* Byte k of the integer v, byte 0 being the least significant.
RECURSIVE ByteOf(_, _)
ByteOf(v, k) == IF k = 0 THEN v % 256 ELSE ByteOf(v \div 256, k - 1)

\* The eight bytes of the file from offset `offset` (counted from 0) are the
\* integer v, least significant byte first.
LittleEndianAt(file, offset, v) ==
    \A k \in 0..7 : file[offset + 1 + k] = ByteOf(v, k)

\* C17: a saved file starts with 128 header bytes: the magic B1 00 88 11 at
\* offset 0, the kind byte at 4, then little-endian size at 5, limit at 13,
\* error rate at 21, number of writes at 29 and maximum of writes at 37,
\* then 83 zero bytes; the content starts at offset 128; from_file takes its
\* content from offset 128 and builds the same container whatever the
\* reserved bytes hold.
C17_HeaderLayout ==
    (pc \in {"saved", "loaded"}) =>
        LET file == files[1]
            cd == saved.container_details.construction_details
        IN  /\ Len(file) >= 128
            /\ SubSeq(file, 1, 4) = <<177, 0, 136, 17>>
            /\ file[5] = (CASE cd.construction_type = "BloomLinesAndSize" -> 0
                            [] cd.construction_type = "BloomLinesAndErrorRate" -> 1
                            [] cd.construction_type = "XXHLimitAndSize" -> 2)
            /\ LittleEndianAt(file, 5, cd.size)
            /\ LittleEndianAt(file, 13, cd.limit)
            /\ SubSeq(file, 22, 29) = WriteF64(cd.error_rate)
            /\ LittleEndianAt(file, 29, saved.num_writes)
            /\ LittleEndianAt(file, 37, saved.max_writes)
            /\ \A i \in 46..128 : file[i] = 0
            /\ Len(SubSeq(file, 46, 128)) = 83
            /\ SubSeq(file, 129, Len(file)) =
                   (IF IsBloom(saved) THEN BloomSaveContent(saved)
                    ELSE XxhSaveContent(saved))
            /\ \A offset \in {45, 127} :
                   /\ FromFileError(WithByteAt(file, offset, 255)) = FromFileError(file)
                   /\ FromFileError(file) = "none" =>
                          FromFile(1, WithByteAt(file, offset, 255), SipNew(0, 1))
                              = FromFile(1, file, SipNew(0, 1))

\* C17 happens: a container with two writes counted was saved and loaded.
C17_Witness ==
    /\ pc = "loaded"
    /\ saved.num_writes = 2
    /\ Len(files[1]) > 128
    /\ containers[1].num_writes = 2


\* ---------------------------------------- properties of loading a file

\* The first four bytes of the file are not the magic.
BadMagic(file) == Len(file) >= 4 /\ SubSeq(file, 1, 4) # <<177, 0, 136, 17>>

\* The kind byte of the file is not 0, 1 or 2.
BadKind(file) == Len(file) >= 5 /\ file[5] \notin {0, 1, 2}

\* The program has not got beyond setting up its containers: no container
\* exists, no line was read, looked up or written.
NothingProcessed ==
    /\ containers = <<>>
    /\ input = <<>>
    /\ log = <<>>
    /\ Output = <<>>

\* C18: when the file's first four bytes are not the magic or its kind byte
\* is not 0, 1 or 2, no container is produced and no line is processed, and
\* the program ends in an abort; a file with a wrong magic is reported as
\* such whatever its other fields hold.
C18_BadMagicOrKindAborts ==
    (BadMagic(files[1]) \/ BadKind(files[1])) =>
        /\ pc \in {"setup", "abort"}
        /\ NothingProcessed
        /\ pc = "abort" =>
              stderr = <<IF BadMagic(files[1]) THEN "magic" ELSE "kind">>

\* C18 happens: the program has aborted on a file whose magic and kind byte
\* are both wrong.
C18_Witness ==
    /\ pc = "abort"
    /\ BadMagic(files[1])
    /\ BadKind(files[1])

\* from_file has aborted on a kind byte no construction type has.
C18_WitnessKind ==
    /\ pc = "abort"
    /\ ~BadMagic(files[1])
    /\ BadKind(files[1])


\* The number of content bytes the header of the file declares: the bytes of
\* the size field, after the 32 bytes of sip keys for a Bloom filter.
DeclaredContentLen(file) ==
    ReadU64(SubSeq(file, 6, 13)) + (IF file[5] \in {0, 1} THEN 32 ELSE 0)

\* The file has a whole, well-formed header and fewer content bytes than
\* the header declares.
TruncatedContent(file) ==
    /\ Len(file) >= 128
    /\ ~BadMagic(file)
    /\ ~BadKind(file)
    /\ Len(file) - 128 < DeclaredContentLen(file)

\* C19: when the content of the file is shorter than its header declares,
\* the program aborts while setting up the container: no container is
\* produced and no line is read, looked up, inserted or emitted.
C19_TruncatedContentRejected ==
    TruncatedContent(files[1]) =>
        /\ pc \in {"setup", "abort"}
        /\ NothingProcessed

\* A file cut inside the sip keys of a Bloom filter is rejected at load time.
TruncatedSipKeysRejected ==
    (/\ TruncatedContent(files[1])
     /\ files[1][5] \in {0, 1}
     /\ Len(files[1]) - 128 < 32) =>
        /\ pc \in {"setup", "abort"}
        /\ NothingProcessed


\* -------------------------------------------- properties of read errors

\* The lines process() went on with after reading them.
ProcessedLines == [i \in 1..Len(log) |-> log[i].line]

\* C20: when reads of stdin fail, the lines that are looked up or emitted
\* are lines of the input, in their order: the input's lines with the failed
\* ones left out.
C20_OnlyInputLinesProcessed ==
    IsSubsequence(ProcessedLines, SplitLines(input))

\* A failed read changes no container, emits nothing, is reported with the
\* number of lines read so far, and leaves the loop running.
ReadErrorIsLocal ==
    [][Len(stderr') > Len(stderr) =>
          /\ containers' = containers
          /\ curr_container_idx' = curr_container_idx
          /\ stdout' \o stdout_lock' = Output
          /\ log' = log
          /\ pc' = "stream"
          /\ stderr'[Len(stderr')].line_idx = Len(log)]_vars

\* When reads fail only between lines, no line is skipped: the lines gone on
\* with are all the lines of the input.
ReadErrorBetweenLinesSkipsNothing ==
    (\A i \in 1..Len(stderr) : stderr[i].consumed = <<>>) =>
        ProcessedLines = SplitLines(input)


\* ------------------------------------------ properties of termination

\* The run has ended: main() returned or the process was aborted.
Ended == pc \in {"exit", "abort"}

\* C21: the run leaves the read loop only when a read returns Ok(0) or when
\* a panic aborts it; whenever the loop has been left, nothing is held back
\* in the output buffer, so all output is on stdout before a file is written
\* and before the process ends; and once stdin is at its end the run ends.
C21_TerminatesFlushed ==
    /\ [][(pc = "stream" /\ pc' # "stream") =>
             \/ pc' = "abort"
             \/ pc' = "save" /\ input' = input /\ log' = log]_vars
    /\ [](pc # "stream" => stdout_lock = <<>>)
    /\ []((\E path \in DOMAIN files : files[path] # <<>>) =>
              (pc = "exit" /\ stdout_lock = <<>>))
    /\ ((stdin_eof \/ pc = "save") ~> Ended)

\* C21 happens: a run in write mode over File containers has ended after a
\* final line without newline was emitted; the output is on stdout and the
\* files are written.
C21_Witness ==
    /\ pc = "exit"
    /\ stdin_eof
    /\ write_mode
    /\ stdout # <<>>
    /\ \E path \in DOMAIN files : files[path] # <<>>


\* ------------------------------------- properties of the write counters

\* The capacity of the container under test: the limit it was constructed
\* with, or the maximum of writes in the header of the file it came from.
Capacity ==
    IF loaded THEN ReadU64(SubSeq(files[1], 38, 45))
    ELSE containers[1].container_details.construction_details.limit

\* C22: in every state, for a new and for a loaded container of either kind,
\* is_full() holds exactly when the number of writes counted has reached the
\* capacity.
C22_FullIffWritesReachCapacity ==
    /\ containers[1].max_writes = Capacity
    /\ IsFull(containers[1]) <=> (containers[1].num_writes >= Capacity)

\* C22 happens: a loaded container has counted exactly as many writes as its
\* capacity of 2 and is full.
C22_Witness ==
    /\ loaded
    /\ Capacity = 2
    /\ containers[1].num_writes = 2
    /\ IsFull(containers[1])
    /\ last.op = "check_and_set"


\* ------------------------------------------ properties of line splitting

\* Every line read so far is shorter than the output buffer, so that each
\* write() of a line is taken whole.
ShortLines == \A i \in 1..Len(log) : Len(log[i].line) < BUFFER_CAPACITY

\* C23: the lines handed to process_line, in order, are the pieces of the
\* input between the bytes 0A and nothing but them: a carriage return stays
\* in the line, an empty piece is looked up as the empty line, a last piece
\* without newline is looked up as well; and each emitted line is written
\* with all its bytes, a carriage return included, and one 0A.
C23_SplitAtNewlineOnly ==
    /\ ProcessedLines = SplitLines(input)
    /\ \A i \in 1..Len(log) : log[i].looked_up
    /\ ShortLines => Output = Terminated(EmittedLines)

\* C23 happens: the input CR LF LF 'a' was read to its end: the line CR, the
\* empty line and a last line without newline, and the line CR was emitted.
C23_Witness ==
    /\ pc = "exit"
    /\ input = <<13, 10, 10, 97>>
    /\ Len(log) = 3
    /\ log[1].line = <<13>> /\ log[1].emitted
    /\ log[2].line = <<>>
    /\ log[3].line = <<97>>
    /\ SubSeq(Output, 1, 2) = <<13, 10>>


\* ------------------------------------- properties of the container setup

\* C24: with file paths given and a count of construction arguments of 0, 1
\* or the number of paths, the run has one container per path, the i-th for
\* the i-th path; with any other count the run is ended before a line is
\* read.
C24_OneContainerPerFilePath ==
    args.file_paths > 0 =>
        IF Len(args.constructions_details) \in {0, 1, args.file_paths}
        THEN pc \in {"stream", "save", "exit"} =>
                /\ Len(containers) = args.file_paths
                /\ \A i \in 1..Len(containers) :
                       /\ containers[i].container_details.path = i
                       /\ containers[i].container_details.data_source = "File"
        ELSE pc \in {"setup", "abort"} /\ NothingProcessed


\* The number of writes counted in the header of a container file.
WritesInFile(file) == ReadU64(SubSeq(file, 30, 37))

\* C25: when process() starts, the container of every file path that exists
\* is the one from_file builds from that file; a line inserted by the run
\* that saved the file is found; and when a file is replaced at the end of
\* the run, the new file counts at least the writes of the old one.
C25_ExistingFilesLoaded ==
    /\ [](pc \in {"stream", "save"} =>
            \A i \in 1..args.file_paths :
                files[i] # <<>> =>
                    /\ i <= Len(containers)
                    /\ log = <<>> => containers[i] = FromFile(i, files[i], SipNew(0, i))
                    /\ \A k \in 1..Len(log) :
                           (log[k].line = <<97>> /\ log[k].looked_up) => log[k].found)
    /\ [][\A i \in 1..args.file_paths :
              (files[i] # <<>> /\ files'[i] # files[i]) =>
                  WritesInFile(files'[i]) >= WritesInFile(files[i])]_vars


\* C26: when a construction argument has capacity 0, the run ends before the
\* stream is read: no container with max_writes = 0 exists and no line is
\* processed.
C26_ZeroCapacityRejected ==
    (\E k \in 1..Len(args.constructions_details) :
         args.constructions_details[k].limit = 0) =>
        /\ pc \in {"setup", "abort"}
        /\ NothingProcessed
        /\ \A i \in 1..Len(containers) : containers[i].max_writes # 0


\* C27: on an xxHash container built with a size of at least one byte and a
\* capacity of at least one write, no call of set, check or check_and_set
\* panics; the container has at least one slot, and every bit it holds lies
\* below 8 * size.
C27_XxhNeverPanics ==
    LET c == containers[1]
        size == c.container_details.construction_details.size
    IN  /\ pc # "abort"
        /\ c.num_slots >= 1
        /\ c.bit_vec.len = 8 * size
        /\ \A i \in c.bit_vec.bits : i < 8 * size


\* The entry process() notes for the line a step has just processed.
NewEntry == log'[Len(log')]

\* A step that processed one line by process_line without a panic.
LineStep ==
    /\ Len(log') = Len(log) + 1
    /\ NewEntry.looked_up
    /\ pc' # "abort"

\* C28: in write mode with a writable container, the scan ends at that
\* container: whether the line is found, and whether it is printed, is what
\* process_line gives on the containers up to the cursor alone, so the
\* containers after the cursor are not consulted.
C28_ScanStopsAtCursor ==
    [][(LineStep /\ NewEntry.could_write) =>
          LET upto == ProcessLine(SubSeq(containers, 1, NewEntry.cursor + 1),
                                  curr_container_idx, NewEntry.line)
          IN  /\ NewEntry.found = upto.value_found
              /\ NewEntry.emitted = upto.print]_vars


\* Whether check() finds the line in one of the first n containers of cs.
FoundBefore(cs, n, line) ==
    \E i \in 1..n : ContainerCheck(cs[i], line).ret

Mutated == {i \in 1..Len(containers) : containers'[i] # containers[i]}

\* C30: processing one line changes at most one container, and only the one
\* at the writable cursor in write mode, which is the leftmost container
\* that is not full; in read mode, and when every container is full, no
\* container changes.
C30_OnlyCursorContainerMutated ==
    [][LineStep =>
          /\ Len(containers') = Len(containers)
          /\ Cardinality(Mutated) <= 1
          /\ \A i \in Mutated :
                /\ write_mode
                /\ NewEntry.could_write
                /\ i = NewEntry.cursor + 1
                /\ i = curr_container_idx' + 1
                /\ ~IsFull(containers[i])
                /\ \A j \in 1..(i - 1) : IsFull(containers[j]) /\ IsFull(containers'[j])]_vars

\* A line was inserted into the second container while the first one, full,
\* holds what it held.
C30_Witness ==
    /\ write_mode
    /\ pc = "stream"
    /\ Len(containers) >= 2
    /\ log # <<>>
    /\ LET e == log[Len(log)] IN
       /\ e.looked_up
       /\ e.inserted
       /\ ~e.found
       /\ e.cursor = 1
       /\ IsFull(containers[1])
       /\ containers[2].num_writes >= 1


\* ------------------------------------------- the probing of the xxHash filter

\* The slot the i-th probe for x looks at, the fingerprint of x, whether a
\* slot is occupied, the fingerprint it holds, and the bits it is made of.
ProbedSlot(c, x, i) == (CalcSlotIndex(c, Xxh3_64(x)) + i) % c.num_slots

Fingerprint(c, x) == Xxh3_64(x) % Pow2(c.key_bits)

SlotOccupied(c, s) == (s * c.slot_bits) \in c.bit_vec.bits

SlotFingerprint(c, s) ==
    BitsValue(c.bit_vec.bits, s * c.slot_bits + 1, s * c.slot_bits + c.key_bits)

SlotBitsOf(c, s) == (s * c.slot_bits)..(s * c.slot_bits + c.slot_bits - 1)

\* The probes at which the probing for x ends: the slot is free, or it holds
\* the fingerprint of x.  Empty when every probed slot holds another one.
ProbeStops(c, x) ==
    {i \in 0..(c.num_tries - 1) :
        \/ ~SlotOccupied(c, ProbedSlot(c, x, i))
        \/ SlotFingerprint(c, ProbedSlot(c, x, i)) = Fingerprint(c, x)}

\* The slot at which the probing for x ends (ProbeStops is not empty).
StopSlot(c, x) ==
    ProbedSlot(c, x, CHOOSE i \in ProbeStops(c, x) : \A j \in ProbeStops(c, x) : i <= j)

\* A direct call op on the xxHash container returned without a panic.
XxhCall(op) ==
    /\ pc = "api"
    /\ pc' = "api"
    /\ ~IsBloom(containers[1])
    /\ last'.op = op

C31_WitnessSecondProbe ==
    /\ pc = "api"
    /\ ~IsBloom(containers[1])
    /\ last.op = "check_and_set"
    /\ ~last.ret
    /\ containers[1].num_slots >= 2
    /\ ProbeStops(containers[1], last.arg) # {}
    /\ StopSlot(containers[1], last.arg) # ProbedSlot(containers[1], last.arg, 0)


\* C32: check(x) on an xxHash container changes nothing and probes as
\* check_and_set(x) does: it gives false when a free slot is met before the
\* fingerprint of x, true when the fingerprint is met first and true when
\* all probed slots hold other fingerprints; so it gives false exactly when
\* check_and_set(x) would write a slot.
C32_CheckProbesAsCheckAndSet ==
    [][XxhCall("check") =>
          LET c == containers[1]
              x == last'.arg
          IN  /\ containers' = containers
              /\ last'.ret = (\/ ProbeStops(c, x) = {}
                              \/ SlotOccupied(c, StopSlot(c, x)))
              /\ ~last'.ret <=> (ContainerCheckAndSet(c, x).c.bit_vec # c.bit_vec)]_vars

\* check(x) has returned true on a container of three slots that all hold
\* fingerprints of other values.
C32_Witness ==
    /\ pc = "api"
    /\ ~IsBloom(containers[1])
    /\ last.op = "check"
    /\ last.ret
    /\ containers[1].num_slots >= 2
    /\ ProbeStops(containers[1], last.arg) = {}

\* check(x) has returned false after passing an occupied slot.
C32_WitnessFreeSecond ==
    /\ pc = "api"
    /\ ~IsBloom(containers[1])
    /\ last.op = "check"
    /\ ~last.ret
    /\ SlotOccupied(containers[1], ProbedSlot(containers[1], last.arg, 0))


\* C33: set(x) on an xxHash container leaves the bits that check_and_set(x)
\* would leave from the same state, and counts exactly one write, whether
\* or not a slot is written.
C33_SetCountsOneWrite ==
    [][XxhCall("set") =>
          LET c == containers[1]
              d == containers'[1]
              x == last'.arg
          IN  /\ d.bit_vec = ContainerCheckAndSet(c, x).c.bit_vec
              /\ d.num_writes = c.num_writes + 1]_vars


\* A direct call op on the Bloom container returned without a panic.
BloomCall(op) ==
    /\ pc = "api"
    /\ pc' = "api"
    /\ IsBloom(containers[1])
    /\ last'.op = op

\* C34: on a Bloom container, check_and_set(x) counts one write exactly when
\* it returns false, set(x) counts exactly one write on every call, and
\* check(x) changes neither the count nor any bit.
C34_BloomWriteCount ==
    [][/\ BloomCall("check_and_set") =>
              containers'[1].num_writes =
                  containers[1].num_writes + (IF last'.ret THEN 0 ELSE 1)
       /\ BloomCall("set") =>
              containers'[1].num_writes = containers[1].num_writes + 1
       /\ BloomCall("check") => containers' = containers]_vars

\* check_and_set(x) was called twice: the second call returned true and the
\* container counts the one write of the first.
C34_Witness ==
    /\ pc = "api"
    /\ IsBloom(containers[1])
    /\ ~loaded
    /\ last.op = "check_and_set"
    /\ last.prev = "check_and_set"
    /\ last.ret
    /\ inserted = {last.arg}
    /\ containers[1].num_writes = 1


C36_CheckAgreesWithCheckAndSet ==
    (pc = "api" /\ ~IsBloom(containers[1])) =>
        \A x \in ApiValues :
            ContainerCheck(containers[1], x).ret
                = ContainerCheckAndSet(containers[1], x).ret


\* Whether the xxHash container answers true for x to both check and
\* check_and_set.
Holds(c, x) == ContainerCheck(c, x).ret /\ ContainerCheckAndSet(c, x).ret

\* C37: no call on an xxHash container frees an occupied slot or changes the
\* fingerprint it holds; a set or check_and_set that writes a slot for x
\* makes check(x) and check_and_set(x) return true, and they go on
\* returning true whatever is called afterwards.
C37_SlotsNeverOverwritten ==
    [][(pc = "api" /\ pc' = "api" /\ ~IsBloom(containers[1])) =>
          LET c == containers[1]
              d == containers'[1]
          IN  /\ \A s \in 0..(c.num_slots - 1) :
                    SlotOccupied(c, s) =>
                        /\ SlotOccupied(d, s)
                        /\ SlotFingerprint(d, s) = SlotFingerprint(c, s)
              /\ d.bit_vec # c.bit_vec => Holds(d, last'.arg)
              /\ \A x \in ApiValues : Holds(c, x) => Holds(d, x)]_vars

\* x was inserted, calls on other values followed, and check(x) has returned
\* true on the slot that holds the fingerprint of x.
C37_Witness ==
    /\ pc = "api"
    /\ ~IsBloom(containers[1])
    /\ ~loaded
    /\ last.op = "check"
    /\ last.prev = "none"
    /\ last.ret
    /\ last.arg \in inserted
    /\ Cardinality(inserted) >= 2
    /\ containers[1].num_slots >= 2
    /\ Cardinality({s \in 0..(containers[1].num_slots - 1) :
                       SlotOccupied(containers[1], s)}) >= 2
    /\ ProbeStops(containers[1], last.arg) # {}
    /\ SlotOccupied(containers[1], StopSlot(containers[1], last.arg))


\* C38: with write mode off, a processed line leaves every container as it
\* was and the cursor at 0, no container being writable; the line is found
\* exactly when check() finds it in some container.
C38_ReadModeChangesNothing ==
    /\ [](~write_mode => curr_container_idx = 0)
    /\ [][(LineStep /\ ~write_mode) =>
             /\ containers' = containers
             /\ curr_container_idx' = 0
             /\ ~NewEntry.could_write
             /\ ~NewEntry.inserted
             /\ NewEntry.found = FoundBefore(containers, Len(containers), NewEntry.line)]_vars

\* With write mode off, one line was found and another was not, and the
\* container is still the one loaded from the file.
C38_Witness ==
    /\ ~write_mode
    /\ pc = "stream"
    /\ curr_container_idx = 0
    /\ Len(containers) >= 1
    /\ \E i, j \in 1..Len(log) :
          /\ log[i].looked_up /\ log[i].found
          /\ log[j].looked_up /\ ~log[j].found
    /\ files[1] # <<>>
    /\ containers[1] = FromFile(1, files[1], SipNew(0, 1))
    /\ containers[1].num_writes >= 1


\* C39: the container from_file builds from a saved file has the kind, size,
\* limit and error rate and the counts of writes of the container that was
\* saved, so is_full() answers the same; and when the saved container was
\* full, process_line in write mode finds no writable container and leaves
\* the loaded one as it is.
C39_MetadataSurvivesReload ==
    pc = "loaded" =>
        LET c == containers[1] IN
        /\ c.container_details.construction_details
               = saved.container_details.construction_details
        /\ c.num_writes = saved.num_writes
        /\ c.max_writes = saved.max_writes
        /\ IsFull(c) = IsFull(saved)
        /\ IsFull(saved) =>
               \A line \in ApiValues :
                   LET r == ProcessLine(containers, 0, line) IN
                   /\ ~r.could_write
                   /\ r.containers = containers

\* A container that had counted writes up to its maximum was saved and
\* loaded: the loaded one is full.
C39_Witness ==
    /\ pc = "loaded"
    /\ write_mode
    /\ saved.num_writes >= 1
    /\ saved.num_writes = saved.max_writes
    /\ IsFull(containers[1])

\* A container with room left was saved and loaded after one insertion.
C39_WitnessRoom ==
    /\ pc = "loaded"
    /\ saved.num_writes = 1
    /\ ~IsFull(containers[1])


====
